---- MODULE Spec2Model ----
(***************************************************************************)
(* Metrics engine of stripe-analytics-mcp: the metric functions applied to *)
(* one snapshot of subscriptions and events, and the server's tool-call    *)
(* handler.                                                                *)
(*                                                                         *)
(* Numbers.  In Spec a JavaScript number that holds an amount is modelled  *)
(* by the exact rational it denotes, a record [n, d] in lowest terms with  *)
(* d > 0, and Math.round is round-half-up on that rational.  SpecDouble    *)
(* applies computeMrr and computeRevenueByPlan to IEEE-754 binary64        *)
(* numbers, every operation rounded to nearest, ties to even, so that the  *)
(* order of the additions shows in the result.  A nullable field is a      *)
(* sequence of length 0 (null) or 1.  A currency code is a sequence of     *)
(* one-character strings so that toLowerCase / toUpperCase act letter by   *)
(* letter.  Presentation-only outputs (the *Formatted strings, asOfDate,   *)
(* startDate, endDate, product names, customer ids and e-mail addresses)   *)
(* and the failed-payment list that computeDashboard passes through are    *)
(* not part of the state.  request is the tool call the server's handler   *)
(* is given (its name, its days argument and what the Stripe call raises); *)
(* it is NoRequest where the metric functions are applied directly.        *)
(***************************************************************************)
EXTENDS Integers, Sequences, FiniteSets, TLC

VARIABLES currentSubs, canceledSubs, events, periodDays, now, request, result

vars == <<currentSubs, canceledSubs, events, periodDays, now, request, result>>

----------------------------------------------------------------------------
(* Exact rational arithmetic                                               *)

Abs(x) == IF x < 0 THEN -x ELSE x

RECURSIVE GCD(_, _)
GCD(a, b) == IF b = 0 THEN a ELSE GCD(b, a % b)

Q(n, d) ==
  LET g == GCD(Abs(n), d)
  IN  IF n = 0 THEN [n |-> 0, d |-> 1] ELSE [n |-> n \div g, d |-> d \div g]

Int2Q(i) == [n |-> i, d |-> 1]
Zero == Int2Q(0)

RAdd(a, b) == Q(a.n * b.d + b.n * a.d, a.d * b.d)
RSub(a, b) == Q(a.n * b.d - b.n * a.d, a.d * b.d)
RMul(a, b) == Q(a.n * b.n, a.d * b.d)
RDiv(a, b) == IF b.n > 0 THEN Q(a.n * b.d, a.d * b.n) ELSE Q(-(a.n * b.d), a.d * (-b.n))
RLt(a, b)  == a.n * b.d < b.n * a.d
RLe(a, b)  == a.n * b.d <= b.n * a.d

\* Math.max(a, b)
MathMax(a, b) == IF RLt(a, b) THEN b ELSE a

\* Math.abs(a)
MathAbs(a) == [n |-> Abs(a.n), d |-> a.d]

\* Math.round(x): the integer nearest to x, a tie going towards +Infinity
MathRound(x) == (2 * x.n + x.d) \div (2 * x.d)

----------------------------------------------------------------------------
(* Nullable values and strings                                             *)

Null == <<>>
Some(x) == <<x>>
IsNull(v) == v = <<>>
Val(v) == v[1]

LowerLetters == <<"d", "e", "r", "s", "u">>
UpperLetters == <<"D", "E", "R", "S", "U">>

toLowerCaseChar(c) ==
  IF \E i \in DOMAIN UpperLetters : UpperLetters[i] = c
  THEN LowerLetters[CHOOSE i \in DOMAIN UpperLetters : UpperLetters[i] = c]
  ELSE c

toUpperCaseChar(c) ==
  IF \E i \in DOMAIN LowerLetters : LowerLetters[i] = c
  THEN UpperLetters[CHOOSE i \in DOMAIN LowerLetters : LowerLetters[i] = c]
  ELSE c

\* String.prototype.toLowerCase / toUpperCase
toLowerCase(str) == [i \in DOMAIN str |-> toLowerCaseChar(str[i])]
toUpperCase(str) == [i \in DOMAIN str |-> toUpperCaseChar(str[i])]

\* UTF-16 code unit order of the letters in use: upper case before lower case
CodeUnit(c) ==
  IF \E i \in DOMAIN UpperLetters : UpperLetters[i] = c
  THEN CHOOSE i \in DOMAIN UpperLetters : UpperLetters[i] = c
  ELSE Len(UpperLetters) + (CHOOSE i \in DOMAIN LowerLetters : LowerLetters[i] = c)

RECURSIVE StrLess(_, _)
StrLess(a, b) ==
  IF Len(a) = 0 THEN Len(b) > 0
  ELSE IF Len(b) = 0 THEN FALSE
  ELSE IF CodeUnit(Head(a)) # CodeUnit(Head(b)) THEN CodeUnit(Head(a)) < CodeUnit(Head(b))
  ELSE StrLess(Tail(a), Tail(b))

\* Array.from(set).sort(): the members in ascending code unit order
RECURSIVE SortedStrings(_)
SortedStrings(S) ==
  IF S = {} THEN <<>>
  ELSE LET m == CHOOSE x \in S : \A y \in S \ {x} : StrLess(x, y)
       IN  <<m>> \o SortedStrings(S \ {m})

usd == <<"u", "s", "d">>

----------------------------------------------------------------------------
(* Outcomes of a call                                                      *)

Return(v) == [threw |-> FALSE, value |-> v]
Throw(e)  == [threw |-> TRUE, error |-> e]

\* new Error(`Mixed currencies not supported. Found: ${currencyList}`)
MixedCurrencyError(currencies) ==
  [message |-> "Mixed currencies not supported. Found: ",
   currencyList |-> SortedStrings({toUpperCase(c) : c \in currencies})]

----------------------------------------------------------------------------
(* types.ts                                                                *)

\* variant: the amount taken as the price of one interval whatever the count
normalizeToMonthlyCentsIgnoringCount(amountCents, interval, intervalCount) ==
  CASE interval = "month" -> amountCents
    [] interval = "year"  -> RDiv(amountCents, Int2Q(12))
    [] interval = "week"  -> RMul(amountCents, RDiv(Int2Q(52), Int2Q(12)))
    [] interval = "day"   -> RMul(amountCents, RDiv(Int2Q(365), Int2Q(12)))

\* lines 207-219
normalizeToMonthlyCents(amountCents, interval, intervalCount) ==
  LET perInterval == RDiv(amountCents, Int2Q(intervalCount))
  IN  CASE interval = "month" -> perInterval
        [] interval = "year"  -> RDiv(perInterval, Int2Q(12))
        [] interval = "week"  -> RMul(perInterval, RDiv(Int2Q(52), Int2Q(12)))
        [] interval = "day"   -> RMul(perInterval, RDiv(Int2Q(365), Int2Q(12)))

\* items.reduce((itemTotal, item) => itemTotal + normalize(unit * quantity, ...), 0)
RECURSIVE SumItems(_)
SumItems(items) ==
  IF Len(items) = 0 THEN Zero
  ELSE LET item == items[Len(items)]
           itemAmount == Int2Q(item.unitAmountCents * item.quantity)
       IN  RAdd(SumItems(SubSeq(items, 1, Len(items) - 1)),
                normalizeToMonthlyCents(itemAmount, item.interval, item.intervalCount))

\* array.filter(pred) for a predicate given as the set of passing elements' indices
RECURSIVE FilterSeq(_, _)
FilterSeq(seq, keep) ==
  IF Len(seq) = 0 THEN <<>>
  ELSE LET front == FilterSeq(SubSeq(seq, 1, Len(seq) - 1), keep)
       IN  IF Len(seq) \in keep THEN Append(front, seq[Len(seq)]) ELSE front

IsContributing(sub) == sub.status = "active" \/ sub.status = "past_due"

----------------------------------------------------------------------------
(* metrics/mrr.ts                                                          *)

\* variant: the amount-off discount subtracted without normalizing it to a month
mrrDiscountedRawAmountOff(subscription) ==
  LET monthlyAmount == SumItems(subscription.items) IN
  IF IsNull(subscription.discount) THEN monthlyAmount
  ELSE LET discount == Val(subscription.discount) IN
    IF ~IsNull(discount.percentOff)
    THEN RMul(monthlyAmount,
              RSub(Int2Q(1), RDiv(Int2Q(Val(discount.percentOff)), Int2Q(100))))
    ELSE IF ~IsNull(discount.amountOff)
    THEN RSub(monthlyAmount, Int2Q(Val(discount.amountOff)))
    ELSE monthlyAmount

\* lines 77-105: monthlyAmount of a subscription with items, after its discount
mrrDiscounted(subscription) ==
  LET monthlyAmount == SumItems(subscription.items) IN
  IF IsNull(subscription.discount) THEN monthlyAmount
  ELSE LET discount == Val(subscription.discount) IN
    IF ~IsNull(discount.percentOff)
    THEN RMul(monthlyAmount,
              RSub(Int2Q(1), RDiv(Int2Q(Val(discount.percentOff)), Int2Q(100))))
    ELSE IF ~IsNull(discount.amountOff)
    THEN RSub(monthlyAmount,
              normalizeToMonthlyCents(Int2Q(Val(discount.amountOff)),
                                      subscription.items[1].interval,
                                      subscription.items[1].intervalCount))
    ELSE monthlyAmount

\* variant: the clamp of line 108 left out
mrrReduceStepNoClamp(subscription) ==
  IF Len(subscription.items) = 0 THEN Zero
  ELSE mrrDiscounted(subscription)

\* lines 69-111, the reduce callback: what one subscription adds to the total
mrrReduceStep(subscription) ==
  IF Len(subscription.items) = 0 THEN Zero
  ELSE MathMax(Zero, mrrDiscounted(subscription))

RECURSIVE mrrReduce(_)
mrrReduce(subs) ==
  IF Len(subs) = 0 THEN Zero
  ELSE RAdd(mrrReduce(SubSeq(subs, 1, Len(subs) - 1)), mrrReduceStep(subs[Len(subs)]))

CountStatus(subscriptions, status) ==
  Cardinality({i \in DOMAIN subscriptions : subscriptions[i].status = status})

\* variant: the currency check made after the status filter, as plans.ts does
mrrCurrenciesOfContributing(subscriptions) ==
  {toLowerCase(subscriptions[i].currency) :
     i \in {j \in DOMAIN subscriptions : IsContributing(subscriptions[j])}}

\* line 46
mrrCurrencies(subscriptions) ==
  {toLowerCase(subscriptions[i].currency) : i \in DOMAIN subscriptions}

\* variant: trialing subscriptions kept by the filter
mrrSubscriptionsWithTrialing(subscriptions) ==
  FilterSeq(subscriptions,
            {i \in DOMAIN subscriptions :
               IsContributing(subscriptions[i]) \/ subscriptions[i].status = "trialing"})

\* lines 64-66
mrrSubscriptionsOf(subscriptions) ==
  FilterSeq(subscriptions, {i \in DOMAIN subscriptions : IsContributing(subscriptions[i])})

computeMrr(subscriptions) ==
  IF Len(subscriptions) = 0
  THEN Return([totalMrrCents |-> 0, currency |-> usd, subscriptionCount |-> 0,
               statusBreakdown |-> [active |-> 0, trialing |-> 0, pastDue |-> 0]])
  ELSE
    LET currencies == mrrCurrencies(subscriptions)
    IN  IF Cardinality(currencies) > 1 THEN Throw(MixedCurrencyError(currencies))
        ELSE
          LET mrrSubscriptions == mrrSubscriptionsOf(subscriptions)
          IN  Return([totalMrrCents |-> MathRound(mrrReduce(mrrSubscriptions)),
                      currency |-> toLowerCase(subscriptions[1].currency),
                      subscriptionCount |-> Len(mrrSubscriptions),
                      statusBreakdown |->
                        [active   |-> CountStatus(subscriptions, "active"),
                         trialing |-> CountStatus(subscriptions, "trialing"),
                         pastDue  |-> CountStatus(subscriptions, "past_due")]])

----------------------------------------------------------------------------
(* metrics/plans.ts                                                        *)

\* variant: the discount block of lines 86-98 left out
planSubscriptionMrrNoDiscount(sub) == MathMax(Zero, SumItems(sub.items))

\* lines 74-101: the revenue of one subscription that has at least one item
\* variant: amountOff tested before percentOff
planSubscriptionMrrAmountOffFirst(sub) ==
  IF IsNull(sub.discount) THEN MathMax(Zero, SumItems(sub.items))
  ELSE IF ~IsNull(Val(sub.discount).amountOff)
  THEN MathMax(Zero,
         RSub(SumItems(sub.items),
              normalizeToMonthlyCents(Int2Q(Val(Val(sub.discount).amountOff)),
                                      sub.items[1].interval, sub.items[1].intervalCount)))
  ELSE IF ~IsNull(Val(sub.discount).percentOff)
  THEN MathMax(Zero,
         RMul(SumItems(sub.items),
              RSub(Int2Q(1), RDiv(Int2Q(Val(Val(sub.discount).percentOff)), Int2Q(100)))))
  ELSE MathMax(Zero, SumItems(sub.items))

planSubscriptionMrr(sub) ==
  LET firstItem == sub.items[1]
      subscriptionMrr == SumItems(sub.items)
      discounted ==
        IF IsNull(sub.discount) THEN subscriptionMrr
        ELSE LET discount == Val(sub.discount) IN
          IF ~IsNull(discount.percentOff)
          THEN RMul(subscriptionMrr,
                    RSub(Int2Q(1), RDiv(Int2Q(Val(discount.percentOff)), Int2Q(100))))
          ELSE IF ~IsNull(discount.amountOff)
          THEN RSub(subscriptionMrr,
                    normalizeToMonthlyCents(Int2Q(Val(discount.amountOff)),
                                            firstItem.interval, firstItem.intervalCount))
          ELSE subscriptionMrr
  IN  MathMax(Zero, discounted)

\* variant: the grouping key taken from the last item
planKeyOfLastItem(sub) == sub.items[Len(sub.items)].planName

\* lines 71-72
planKeyOf(sub) == sub.items[1].planName

\* lines 64-123: planMap after the loop, as the sequence of its entries in
\* insertion order
RECURSIVE planMapOf(_)
planMapOf(activeSubscriptions) ==
  IF Len(activeSubscriptions) = 0 THEN <<>>
  ELSE
    LET planMap == planMapOf(SubSeq(activeSubscriptions, 1, Len(activeSubscriptions) - 1))
        sub == activeSubscriptions[Len(activeSubscriptions)]
    IN  IF Len(sub.items) = 0 THEN planMap
        ELSE
          LET planKey == planKeyOf(sub)
              subscriptionMrr == planSubscriptionMrr(sub)
          IN  IF \E k \in DOMAIN planMap : planMap[k].planName = planKey
              THEN [k \in DOMAIN planMap |->
                      IF planMap[k].planName = planKey
                      THEN [planMap[k] EXCEPT
                              !.activeSubscribers = @ + 1,
                              !.mrrCents = RAdd(@, subscriptionMrr)]
                      ELSE planMap[k]]
              ELSE Append(planMap, [planName |-> planKey,
                                    activeSubscribers |-> 1,
                                    mrrCents |-> subscriptionMrr])

RECURSIVE planMapTotal(_)
planMapTotal(planMap) ==
  IF Len(planMap) = 0 THEN Zero
  ELSE RAdd(planMapTotal(SubSeq(planMap, 1, Len(planMap) - 1)), planMap[Len(planMap)].mrrCents)

\* plans.sort((a, b) => b.mrrCents - a.mrrCents): stable, descending
RECURSIVE sortPlans(_)
sortPlans(plans) ==
  IF Len(plans) = 0 THEN <<>>
  ELSE
    LET sorted == sortPlans(SubSeq(plans, 1, Len(plans) - 1))
        plan == plans[Len(plans)]
        before == Cardinality({k \in DOMAIN sorted : sorted[k].mrrCents >= plan.mrrCents})
    IN  SubSeq(sorted, 1, before) \o <<plan>> \o SubSeq(sorted, before + 1, Len(sorted))

\* variant: no status filter before the currency check
planAllSubscriptions(subscriptions) == subscriptions

\* lines 29-31
planActiveSubscriptions(subscriptions) ==
  FilterSeq(subscriptions, {i \in DOMAIN subscriptions : IsContributing(subscriptions[i])})

computeRevenueByPlan(subscriptions) ==
  LET activeSubscriptions == planActiveSubscriptions(subscriptions)
  IN
  IF Len(activeSubscriptions) = 0
  THEN Return([plans |-> <<>>, totalMrrCents |-> 0, currency |-> usd])
  ELSE
    LET currencies ==
          {toLowerCase(activeSubscriptions[i].currency) : i \in DOMAIN activeSubscriptions}
    IN  IF Cardinality(currencies) > 1 THEN Throw(MixedCurrencyError(currencies))
        ELSE
          LET planMap == planMapOf(activeSubscriptions)
              totalMrrCents == planMapTotal(planMap)
              plans == [k \in DOMAIN planMap |->
                          [planName |-> planMap[k].planName,
                           activeSubscribers |-> planMap[k].activeSubscribers,
                           mrrCents |-> MathRound(planMap[k].mrrCents),
                           percentOfTotal |->
                             IF totalMrrCents = Zero THEN Zero
                             ELSE RMul(RDiv(planMap[k].mrrCents, totalMrrCents),
                                       Int2Q(100))]]
          IN  Return([plans |-> sortPlans(plans),
                      totalMrrCents |-> MathRound(totalMrrCents),
                      currency |-> toLowerCase(activeSubscriptions[1].currency)])

----------------------------------------------------------------------------
(* metrics/churn.ts                                                        *)

\* the reduce callback of computeTotalMrr
churnReduceStep(subscription) ==
  IF Len(subscription.items) = 0 THEN Zero
  ELSE
    LET base == SumItems(subscription.items)
        discounted ==
          IF IsNull(subscription.discount) THEN base
          ELSE LET discount == Val(subscription.discount) IN
            IF ~IsNull(discount.percentOff)
            THEN RMul(base, RSub(Int2Q(1), RDiv(Int2Q(Val(discount.percentOff)), Int2Q(100))))
            ELSE IF ~IsNull(discount.amountOff)
            THEN RSub(base, normalizeToMonthlyCents(Int2Q(Val(discount.amountOff)),
                                                    subscription.items[1].interval,
                                                    subscription.items[1].intervalCount))
            ELSE base
    IN  MathMax(Zero, discounted)

RECURSIVE computeTotalMrr(_)
computeTotalMrr(subscriptions) ==
  IF Len(subscriptions) = 0 THEN Zero
  ELSE RAdd(computeTotalMrr(SubSeq(subscriptions, 1, Len(subscriptions) - 1)),
            churnReduceStep(subscriptions[Len(subscriptions)]))

SecondsPerDay == 24 * 60 * 60

\* line 94
customerChurnRateOf(churnedCustomers, startingCustomers) ==
  IF startingCustomers = 0 THEN Zero
  ELSE RMul(RDiv(Int2Q(churnedCustomers), Int2Q(startingCustomers)), Int2Q(100))

\* variant: the zero test made on the rounded starting revenue
revenueChurnRateOfRounded(churnedMrrCents, startingMrrCents) ==
  IF MathRound(startingMrrCents) = 0 THEN Zero
  ELSE RMul(RDiv(churnedMrrCents, startingMrrCents), Int2Q(100))

\* line 95
revenueChurnRateOf(churnedMrrCents, startingMrrCents) ==
  IF startingMrrCents = Zero THEN Zero
  ELSE RMul(RDiv(churnedMrrCents, startingMrrCents), Int2Q(100))

\* variant: a subscription created exactly at the period start kept
startingSubscriptionsInclusive(allSubs, periodStartSeconds) ==
  FilterSeq(allSubs,
            {i \in DOMAIN allSubs :
               /\ IsContributing(allSubs[i])
               /\ allSubs[i].createdAt <= periodStartSeconds})

\* lines 77-81
startingSubscriptionsOf(allSubs, periodStartSeconds) ==
  FilterSeq(allSubs,
            {i \in DOMAIN allSubs :
               /\ IsContributing(allSubs[i])
               /\ allSubs[i].createdAt < periodStartSeconds})

\* variant: the churned collection filtered by cancellation time
churnedSubscriptionsInPeriod(canceledSubsArg, periodStartSeconds) ==
  FilterSeq(canceledSubsArg,
            {i \in DOMAIN canceledSubsArg :
               /\ ~IsNull(canceledSubsArg[i].canceledAt)
               /\ Val(canceledSubsArg[i].canceledAt) >= periodStartSeconds})

\* lines 89-90: canceledSubs is used as supplied
churnedSubscriptionsOf(canceledSubsArg, periodStartSeconds) == canceledSubsArg

computeChurn(allSubs, canceledSubsArg, periodDaysArg, nowSeconds) ==
  LET normalizedPeriodDays == IF periodDaysArg <= 0 THEN 1 ELSE periodDaysArg
      periodStartSeconds == nowSeconds - normalizedPeriodDays * SecondsPerDay
      allSubscriptions == allSubs \o canceledSubsArg
  IN
  IF Len(allSubscriptions) = 0
  THEN Return([periodDays |-> normalizedPeriodDays,
               customerChurnRate |-> Zero, revenueChurnRate |-> Zero,
               churnedCustomers |-> 0, churnedMrrCents |-> 0,
               startingCustomers |-> 0, startingMrrCents |-> 0, currency |-> usd])
  ELSE
    LET currencies ==
          {toLowerCase(allSubscriptions[i].currency) : i \in DOMAIN allSubscriptions}
    IN  IF Cardinality(currencies) > 1 THEN Throw(MixedCurrencyError(currencies))
        ELSE
          LET startingSubscriptions == startingSubscriptionsOf(allSubs, periodStartSeconds)
              churnedSubscriptions ==
                churnedSubscriptionsOf(canceledSubsArg, periodStartSeconds)
              startingCustomers == Len(startingSubscriptions)
              startingMrrCents == computeTotalMrr(startingSubscriptions)
              churnedCustomers == Len(churnedSubscriptions)
              churnedMrrCents == computeTotalMrr(churnedSubscriptions)
              customerChurnRate == customerChurnRateOf(churnedCustomers, startingCustomers)
              revenueChurnRate == revenueChurnRateOf(churnedMrrCents, startingMrrCents)
          IN  Return([periodDays |-> normalizedPeriodDays,
                      customerChurnRate |-> customerChurnRate,
                      revenueChurnRate |-> revenueChurnRate,
                      churnedCustomers |-> churnedCustomers,
                      churnedMrrCents |-> MathRound(churnedMrrCents),
                      startingCustomers |-> startingCustomers,
                      startingMrrCents |-> MathRound(startingMrrCents),
                      currency |-> toLowerCase(allSubscriptions[1].currency)])

----------------------------------------------------------------------------
(* metrics/dashboard.ts                                                    *)

\* variant: the clamp of line 164 left out
computeSubscriptionMrrNoClamp(sub) ==
  IF IsNull(sub.discount) THEN SumItems(sub.items)
  ELSE IF ~IsNull(Val(sub.discount).percentOff)
  THEN RMul(SumItems(sub.items),
            RSub(Int2Q(1), RDiv(Int2Q(Val(Val(sub.discount).percentOff)), Int2Q(100))))
  ELSE IF ~IsNull(Val(sub.discount).amountOff) /\ Len(sub.items) > 0
  THEN RSub(SumItems(sub.items),
            normalizeToMonthlyCents(Int2Q(Val(Val(sub.discount).amountOff)),
                                    sub.items[1].interval, sub.items[1].intervalCount))
  ELSE SumItems(sub.items)

\* lines 144-165
computeSubscriptionMrr(sub) ==
  LET monthlyAmount == SumItems(sub.items)
      discounted ==
        IF IsNull(sub.discount) THEN monthlyAmount
        ELSE LET discount == Val(sub.discount) IN
          IF ~IsNull(discount.percentOff)
          THEN RMul(monthlyAmount,
                    RSub(Int2Q(1), RDiv(Int2Q(Val(discount.percentOff)), Int2Q(100))))
          ELSE IF ~IsNull(discount.amountOff) /\ Len(sub.items) > 0
          THEN RSub(monthlyAmount,
                    normalizeToMonthlyCents(Int2Q(Val(discount.amountOff)),
                                            sub.items[1].interval,
                                            sub.items[1].intervalCount))
          ELSE monthlyAmount
  IN  MathMax(Zero, discounted)

\* variant: a subscription created exactly at the cutoff left out
RECURSIVE newMrrOfStrictlyAfter(_, _)
newMrrOfStrictlyAfter(subs, cutoff) ==
  IF Len(subs) = 0 THEN Zero
  ELSE IF subs[Len(subs)].createdAt > cutoff /\ IsContributing(subs[Len(subs)])
  THEN RAdd(newMrrOfStrictlyAfter(SubSeq(subs, 1, Len(subs) - 1), cutoff),
            computeSubscriptionMrr(subs[Len(subs)]))
  ELSE newMrrOfStrictlyAfter(SubSeq(subs, 1, Len(subs) - 1), cutoff)

\* lines 36-41: the loop that accumulates newMrr
RECURSIVE newMrrOf(_, _)
newMrrOf(subs, cutoff) ==
  IF Len(subs) = 0 THEN Zero
  ELSE LET sub == subs[Len(subs)]
           rest == newMrrOf(SubSeq(subs, 1, Len(subs) - 1), cutoff)
       IN  IF sub.createdAt >= cutoff /\ IsContributing(sub)
           THEN RAdd(rest, computeSubscriptionMrr(sub)) ELSE rest

\* lines 44-49: the loop that accumulates churnedMrr
RECURSIVE churnedMrrOf(_, _)
churnedMrrOf(subs, cutoff) ==
  IF Len(subs) = 0 THEN Zero
  ELSE LET sub == subs[Len(subs)]
           rest == churnedMrrOf(SubSeq(subs, 1, Len(subs) - 1), cutoff)
       IN  IF ~IsNull(sub.canceledAt) /\ Val(sub.canceledAt) # 0
              /\ Val(sub.canceledAt) >= cutoff
           THEN RAdd(rest, computeSubscriptionMrr(sub)) ELSE rest

\* variant: an event exactly at the cutoff left out
IsAmountChangeAfterCutoff(event, cutoff) ==
  /\ event.type = "customer.subscription.updated"
  /\ ~IsNull(event.amountCents)
  /\ ~IsNull(event.previousAmountCents)
  /\ event.created > cutoff

\* lines 53-56
IsAmountChange(event, cutoff) ==
  /\ event.type = "customer.subscription.updated"
  /\ ~IsNull(event.amountCents)
  /\ ~IsNull(event.previousAmountCents)
  /\ event.created >= cutoff

\* lines 52-64: the loop that accumulates expansionMrr and contractionMrr
RECURSIVE expansionMrrOf(_, _)
expansionMrrOf(evs, cutoff) ==
  IF Len(evs) = 0 THEN 0
  ELSE LET event == evs[Len(evs)]
           rest == expansionMrrOf(SubSeq(evs, 1, Len(evs) - 1), cutoff)
       IN  IF IsAmountChange(event, cutoff)
              /\ Val(event.amountCents) - Val(event.previousAmountCents) > 0
           THEN rest + (Val(event.amountCents) - Val(event.previousAmountCents))
           ELSE rest

RECURSIVE contractionMrrOf(_, _)
contractionMrrOf(evs, cutoff) ==
  IF Len(evs) = 0 THEN 0
  ELSE LET event == evs[Len(evs)]
           rest == contractionMrrOf(SubSeq(evs, 1, Len(evs) - 1), cutoff)
       IN  IF IsAmountChange(event, cutoff)
              /\ Val(event.amountCents) - Val(event.previousAmountCents) < 0
           THEN rest + Abs(Val(event.amountCents) - Val(event.previousAmountCents))
           ELSE rest

\* variant: the churned revenue added instead of subtracted
netNewOfChurnAdded(newMrr, expansionMrr, contractionMrr, churnedMrr) ==
  RAdd(RSub(RAdd(newMrr, expansionMrr), contractionMrr), churnedMrr)

\* line 66
netNewOf(newMrr, expansionMrr, contractionMrr, churnedMrr) ==
  RSub(RSub(RAdd(newMrr, expansionMrr), contractionMrr), churnedMrr)

computeMrrMovement(currentSubsArg, canceledSubsArg, eventsArg, periodDaysArg, nowSeconds) ==
  LET cutoff == nowSeconds - periodDaysArg * 86400
      currency == IF Len(currentSubsArg) > 0
                  THEN toLowerCase(currentSubsArg[1].currency) ELSE usd
      newMrr == newMrrOf(currentSubsArg, cutoff)
      churnedMrr == churnedMrrOf(canceledSubsArg, cutoff)
      expansionMrr == Int2Q(expansionMrrOf(eventsArg, cutoff))
      contractionMrr == Int2Q(contractionMrrOf(eventsArg, cutoff))
      netNew == netNewOf(newMrr, expansionMrr, contractionMrr, churnedMrr)
  IN  Return([periodDays |-> periodDaysArg,
              newMrrCents |-> MathRound(newMrr),
              expansionMrrCents |-> MathRound(expansionMrr),
              contractionMrrCents |-> MathRound(contractionMrr),
              churnedMrrCents |-> MathRound(churnedMrr),
              netNewMrrCents |-> MathRound(netNew),
              currency |-> currency])

\* Math.ceil(x)
MathCeil(x) == -((-x.n) \div x.d)

\* lines 91-96: the filter of getExpiringTrials
IsExpiringTrial(sub, nowSeconds, cutoff) ==
  /\ sub.status = "trialing"
  /\ ~IsNull(sub.trialEnd)
  /\ Val(sub.trialEnd) > nowSeconds
  /\ Val(sub.trialEnd) <= cutoff

\* lines 97-109: the entry made for one trial
TrialInfoOf(sub, nowSeconds) ==
  [planName |-> IF Len(sub.items) > 0 THEN sub.items[1].planName ELSE "Unknown",
   trialEnd |-> Val(sub.trialEnd),
   daysRemaining |-> MathCeil(Q(Val(sub.trialEnd) - nowSeconds, 86400)),
   mrrIfConverted |-> MathRound(computeSubscriptionMrr(sub))]

\* variant: the entries left in input order
sortTrialsUnsorted(trials) == trials

\* line 110, sort((a, b) => a.daysRemaining - b.daysRemaining): stable, ascending
RECURSIVE sortTrials(_)
sortTrials(trials) ==
  IF Len(trials) = 0 THEN <<>>
  ELSE
    LET sorted == sortTrials(SubSeq(trials, 1, Len(trials) - 1))
        trial == trials[Len(trials)]
        before == Cardinality({k \in DOMAIN sorted :
                                 sorted[k].daysRemaining <= trial.daysRemaining})
    IN  SubSeq(sorted, 1, before) \o <<trial>> \o SubSeq(sorted, before + 1, Len(sorted))

getExpiringTrials(subscriptions, withinDays, nowSeconds) ==
  LET cutoff == nowSeconds + withinDays * 86400
      expiring == FilterSeq(subscriptions,
                            {i \in DOMAIN subscriptions :
                               IsExpiringTrial(subscriptions[i], nowSeconds, cutoff)})
  IN  sortTrials([k \in DOMAIN expiring |-> TrialInfoOf(expiring[k], nowSeconds)])

\* the number Infinity, next to the rationals [n, d] with d > 0
Infinity == [n |-> 1, d |-> 0]

\* variant: 0 instead of Infinity when nothing was lost
quickRatioOfZeroForNoLoss(positive, negative) ==
  IF negative > 0 THEN Q(positive, negative) ELSE Zero

\* line 130
quickRatioOf(positive, negative) ==
  IF negative > 0 THEN Q(positive, negative)
  ELSE IF positive > 0 THEN Infinity ELSE Zero

\* line 137: Math.round(quickRatio * 10) / 10
roundToTenth(x) ==
  IF x = Infinity THEN Infinity ELSE Q(MathRound(RMul(x, Int2Q(10))), 10)

\* the window computeDashboard passes to getExpiringTrials, line 125
TrialWindowDays == 3

computeDashboard(currentSubsArg, canceledSubsArg, eventsArg, periodDaysArg, nowSeconds) ==
  LET mrr == computeMrr(currentSubsArg) IN
  IF mrr.threw THEN mrr
  ELSE
    LET mrrMovement ==
          computeMrrMovement(currentSubsArg, canceledSubsArg, eventsArg,
                             periodDaysArg, nowSeconds).value
        expiringTrials == getExpiringTrials(currentSubsArg, TrialWindowDays, nowSeconds)
        positive == mrrMovement.newMrrCents + mrrMovement.expansionMrrCents
        negative == mrrMovement.contractionMrrCents + mrrMovement.churnedMrrCents
    IN  Return([mrr |-> mrr.value,
                mrrMovement |-> mrrMovement,
                expiringTrials |-> expiringTrials,
                quickRatio |-> roundToTenth(quickRatioOf(positive, negative))])

----------------------------------------------------------------------------
(* metrics/subscribers.ts                                                  *)

\* variant: past_due subscriptions not counted as active
IsTotalActiveOnlyActive(status) == status = "active"

\* line 50
IsTotalActive(status) == status = "active" \/ status = "past_due"

\* variant: trialing subscriptions not counted as new
IsNewThisPeriodNoTrialing(sub, periodCutoffSeconds) ==
  /\ sub.createdAt >= periodCutoffSeconds
  /\ sub.status = "active" \/ sub.status = "past_due"

\* lines 65-66
IsNewThisPeriod(sub, periodCutoffSeconds) ==
  /\ sub.createdAt >= periodCutoffSeconds
  /\ sub.status = "active" \/ sub.status = "trialing" \/ sub.status = "past_due"

\* line 72
IsChurnedThisPeriod(sub, periodCutoffSeconds) ==
  ~IsNull(sub.canceledAt) /\ Val(sub.canceledAt) >= periodCutoffSeconds

\* lines 39-75: the counters after the pass over allSubscriptions
RECURSIVE subscriberCounters(_, _)
subscriberCounters(allSubscriptions, periodCutoffSeconds) ==
  IF Len(allSubscriptions) = 0
  THEN [totalActive |-> 0, trialing |-> 0, pastDue |-> 0,
        newThisPeriod |-> 0, churnedThisPeriod |-> 0]
  ELSE
    LET counters == subscriberCounters(
                      SubSeq(allSubscriptions, 1, Len(allSubscriptions) - 1),
                      periodCutoffSeconds)
        sub == allSubscriptions[Len(allSubscriptions)]
        inc(cond) == IF cond THEN 1 ELSE 0
    IN  [totalActive |-> counters.totalActive + inc(IsTotalActive(sub.status)),
         trialing |-> counters.trialing + inc(sub.status = "trialing"),
         pastDue |-> counters.pastDue + inc(sub.status = "past_due"),
         newThisPeriod |->
           counters.newThisPeriod + inc(IsNewThisPeriod(sub, periodCutoffSeconds)),
         churnedThisPeriod |->
           counters.churnedThisPeriod + inc(IsChurnedThisPeriod(sub, periodCutoffSeconds))]

computeSubscriberStats(allSubscriptions, periodDaysArg, nowSeconds) ==
  LET normalizedPeriodDays == IF periodDaysArg <= 0 THEN 1 ELSE periodDaysArg
      periodCutoffSeconds == nowSeconds - normalizedPeriodDays * SecondsPerDay
      counters == subscriberCounters(allSubscriptions, periodCutoffSeconds)
  IN  Return([periodDays |-> normalizedPeriodDays,
              totalActive |-> counters.totalActive,
              newThisPeriod |-> counters.newThisPeriod,
              churnedThisPeriod |-> counters.churnedThisPeriod,
              netChange |-> counters.newThisPeriod - counters.churnedThisPeriod,
              trialing |-> counters.trialing,
              pastDue |-> counters.pastDue])

----------------------------------------------------------------------------
(* metrics/changes.ts.  A date string is modelled by the number of the UTC  *)
(* day it names, an amount string by the number of minor units it shows.   *)

\* variant: an update with equal amounts classified as an upgrade
mapEventToChangeTypeEqualUpgraded(event) ==
  CASE event.type = "customer.subscription.created" -> Some("new")
    [] event.type = "customer.subscription.deleted" -> Some("canceled")
    [] event.type = "customer.subscription.updated" ->
         IF ~IsNull(event.amountCents) /\ ~IsNull(event.previousAmountCents)
         THEN IF Val(event.amountCents) >= Val(event.previousAmountCents)
              THEN Some("upgraded") ELSE Some("downgraded")
         ELSE Null
    [] event.type = "invoice.payment_failed" -> Some("payment_failed")
    [] OTHER -> Null

\* lines 97-125
mapEventToChangeType(event) ==
  CASE event.type = "customer.subscription.created" -> Some("new")
    [] event.type = "customer.subscription.deleted" -> Some("canceled")
    [] event.type = "customer.subscription.updated" ->
         IF ~IsNull(event.amountCents) /\ ~IsNull(event.previousAmountCents)
         THEN IF Val(event.amountCents) > Val(event.previousAmountCents)
              THEN Some("upgraded")
              ELSE IF Val(event.amountCents) < Val(event.previousAmountCents)
              THEN Some("downgraded")
              ELSE Null
         ELSE Null
    [] event.type = "invoice.payment_failed" -> Some("payment_failed")
    [] OTHER -> Null

\* lines 130-137
formatAmount(amountCents) == IF IsNull(amountCents) THEN 0 ELSE Val(amountCents)

\* lines 142-145
formatDate(timestamp) == timestamp \div SecondsPerDay

\* variant: failed payments listed but not counted
summaryAfterSkippingFailed(summary, changeType) ==
  CASE changeType = "new" -> [summary EXCEPT !.newCount = @ + 1]
    [] changeType = "canceled" -> [summary EXCEPT !.canceledCount = @ + 1]
    [] changeType = "upgraded" -> [summary EXCEPT !.upgradedCount = @ + 1]
    [] changeType = "downgraded" -> [summary EXCEPT !.downgradedCount = @ + 1]
    [] changeType = "payment_failed" -> summary

\* lines 49-65: the counter of changeType incremented
summaryAfter(summary, changeType) ==
  CASE changeType = "new" -> [summary EXCEPT !.newCount = @ + 1]
    [] changeType = "canceled" -> [summary EXCEPT !.canceledCount = @ + 1]
    [] changeType = "upgraded" -> [summary EXCEPT !.upgradedCount = @ + 1]
    [] changeType = "downgraded" -> [summary EXCEPT !.downgradedCount = @ + 1]
    [] changeType = "payment_failed" -> [summary EXCEPT !.failedPaymentCount = @ + 1]

\* lines 32-77: changes and summary after the loop over the events
RECURSIVE recentChangesLoop(_)
recentChangesLoop(eventsArg) ==
  IF Len(eventsArg) = 0
  THEN [changes |-> <<>>,
        summary |-> [newCount |-> 0, canceledCount |-> 0, upgradedCount |-> 0,
                     downgradedCount |-> 0, failedPaymentCount |-> 0]]
  ELSE
    LET acc == recentChangesLoop(SubSeq(eventsArg, 1, Len(eventsArg) - 1))
        event == eventsArg[Len(eventsArg)]
        changeType == mapEventToChangeType(event)
    IN  IF IsNull(changeType) THEN acc
        ELSE [changes |-> Append(acc.changes,
                                 [type |-> Val(changeType),
                                  amountFormatted |-> formatAmount(event.amountCents),
                                  date |-> formatDate(event.created)]),
              summary |-> summaryAfter(acc.summary, Val(changeType))]

\* variant: the list left in the order of the events
sortChangesKeepingOrder(changes) == changes

\* lines 80-84, sort by date descending: stable
RECURSIVE sortChanges(_)
sortChanges(changes) ==
  IF Len(changes) = 0 THEN <<>>
  ELSE
    LET sorted == sortChanges(SubSeq(changes, 1, Len(changes) - 1))
        change == changes[Len(changes)]
        before == Cardinality({k \in DOMAIN sorted : sorted[k].date >= change.date})
    IN  SubSeq(sorted, 1, before) \o <<change>> \o SubSeq(sorted, before + 1, Len(sorted))

\* variant: only the events of the last days days classified
computeRecentChangesWithinDays(eventsArg, days) ==
  Return([days |-> days,
          changes |-> sortChanges(recentChangesLoop(
            SelectSeq(eventsArg,
                      LAMBDA event : event.created >= 864000 - days * SecondsPerDay)).changes),
          summary |-> recentChangesLoop(
            SelectSeq(eventsArg,
                      LAMBDA event : event.created >= 864000 - days * SecondsPerDay)).summary])

\* lines 28-91
computeRecentChanges(eventsArg, days) ==
  LET acc == recentChangesLoop(eventsArg)
  IN  Return([days |-> days, changes |-> sortChanges(acc.changes), summary |-> acc.summary])

----------------------------------------------------------------------------
(* stripe/client.ts and server.ts.  A message is the sequence of its parts; *)
(* a thrown value records whether it is an instance of Error.              *)

\* new Error(message)
ErrorOf(message) == [instanceOfError |-> TRUE, message |-> message]

\* errorMessage.toLowerCase().includes('permission'), a message being the
\* sequence of its words
messageIncludesPermission(message) ==
  \E i \in DOMAIN message : message[i] \in {"permission", "Permission", "PERMISSION"}

\* `${prefix}${errorMessage || fallback}`
prefixedOr(prefix, errorMessage, fallback) ==
  <<prefix>> \o (IF errorMessage = <<>> THEN <<fallback>> ELSE errorMessage)

\* the StripeClientError object literal
StripeClientError(type, message, retriable) ==
  [instanceOfError |-> FALSE, type |-> type, message |-> message, retriable |-> retriable]

\* client.ts lines 430-505
mapStripeError(error) ==
  IF error.instanceOfError
  THEN
    IF error.type = Some("authentication_error") \/ error.code = Some("authentication_error")
    THEN StripeClientError("authentication",
           prefixedOr("Authentication failed: ", error.message, "Invalid API key"), FALSE)
    ELSE IF error.type = Some("rate_limit") \/ error.code = Some("rate_limit")
    THEN StripeClientError("rate_limit",
           prefixedOr("Rate limit exceeded: ", error.message, "Too many requests"), TRUE)
    ELSE IF error.code \in {Some("ECONNREFUSED"), Some("ETIMEDOUT"), Some("ENOTFOUND")}
    THEN StripeClientError("api_connection",
           prefixedOr("Connection error: ", error.message, "Failed to connect to Stripe"),
           TRUE)
    ELSE IF error.type = Some("invalid_request_error")
            /\ messageIncludesPermission(error.message)
    THEN StripeClientError("permission", <<"Permission denied: ">> \o error.message, FALSE)
    ELSE IF error.type = Some("invalid_request_error")
    THEN StripeClientError("invalid_request", <<"Invalid request: ">> \o error.message, FALSE)
    ELSE IF error.type = Some("api_error")
    THEN StripeClientError("api_error", <<"Stripe API error: ">> \o error.message, TRUE)
    ELSE StripeClientError("unknown", error.message, FALSE)
  ELSE StripeClientError("unknown", <<"An unknown error occurred">>, FALSE)

\* client.ts lines 94-95, 152-153, 249-250: throw mapStripeError(error)
thrownByFetch(stripeFailure) == mapStripeError(Val(stripeFailure))

\* fetchAllSubscriptions, fetchCanceledSubscriptions, fetchRecentEvents: the
\* normalized data, or the mapped failure of the Stripe call
fetchOutcome(stripeFailure, data) ==
  IF IsNull(stripeFailure) THEN Return(data) ELSE Throw(thrownByFetch(stripeFailure))

\* z.number().min(1).max(maximum).optional().default(defaultValue), parsed
parseDays(arg, maximum, defaultValue) ==
  IF IsNull(arg) THEN Return(defaultValue)
  ELSE IF Val(arg) < 1 THEN Throw(ErrorOf(<<"ZodError", "too_small">>))
  ELSE IF Val(arg) > maximum THEN Throw(ErrorOf(<<"ZodError", "too_big">>))
  ELSE Return(Val(arg))

\* a metric function's outcome as the handler sees it: its markdown, or the
\* Error the function threw
metricOutcome(outcome) ==
  IF outcome.threw
  THEN Throw(ErrorOf(<<outcome.error.message>> \o outcome.error.currencyList))
  ELSE Return([markdownOf |-> outcome.value])

\* server.ts lines 156-183, 205-256: a tool with a days argument
toolWithDays(req, maximum, defaultValue, data, metric(_)) ==
  IF parseDays(req.days, maximum, defaultValue).threw
  THEN parseDays(req.days, maximum, defaultValue)
  ELSE IF fetchOutcome(req.stripeFailure, data).threw
  THEN fetchOutcome(req.stripeFailure, data)
  ELSE metricOutcome(metric(parseDays(req.days, maximum, defaultValue).value))

\* server.ts lines 135-259: the switch over the tool name
toolOutcome(req, subs, canceled, evs, nowSeconds) ==
  CASE req.name = "get_mrr" ->
         IF fetchOutcome(req.stripeFailure, subs).threw
         THEN fetchOutcome(req.stripeFailure, subs)
         ELSE metricOutcome(computeMrr(subs))
    [] req.name = "get_churn" ->
         toolWithDays(req, 365, 30, subs,
                      LAMBDA period_days : computeChurn(subs, canceled, period_days, nowSeconds))
    [] req.name = "get_revenue_by_plan" ->
         IF fetchOutcome(req.stripeFailure, subs).threw
         THEN fetchOutcome(req.stripeFailure, subs)
         ELSE metricOutcome(computeRevenueByPlan(subs))
    [] req.name = "get_subscriber_stats" ->
         toolWithDays(req, 365, 30, subs,
                      LAMBDA period_days : computeSubscriberStats(subs, period_days, nowSeconds))
    [] req.name = "get_recent_changes" ->
         toolWithDays(req, 90, 7, evs, LAMBDA days : computeRecentChanges(evs, days))
    [] OTHER -> Throw(ErrorOf(<<"Unknown tool: ", req.name>>))

\* server.ts lines 261-273: the catch block
errorResult(error) ==
  [text |-> <<"Error: ">> \o (IF error.instanceOfError THEN error.message
                               ELSE <<"Unknown error occurred">>),
   isError |-> TRUE]

\* server.ts lines 131-274
callToolHandler(req, subs, canceled, evs, nowSeconds) ==
  IF toolOutcome(req, subs, canceled, evs, nowSeconds).threw
  THEN errorResult(toolOutcome(req, subs, canceled, evs, nowSeconds).error)
  ELSE [text |-> <<"markdown">>,
        markdownOf |-> toolOutcome(req, subs, canceled, evs, nowSeconds).value.markdownOf,
        isError |-> FALSE]

----------------------------------------------------------------------------
(* Natural numbers of any size: little-endian sequences of limbs below     *)
(* LimbBase, without most significant zero limbs.  They carry the exact    *)
(* intermediate results of binary64 arithmetic.                            *)

LimbBits == 15
LimbBase == 2 ^ LimbBits

RECURSIVE BStrip(_)
BStrip(a) ==
  IF Len(a) > 0 /\ a[Len(a)] = 0 THEN BStrip(SubSeq(a, 1, Len(a) - 1)) ELSE a

RECURSIVE BFromInt(_)
BFromInt(i) == IF i = 0 THEN <<>> ELSE <<i % LimbBase>> \o BFromInt(i \div LimbBase)

RECURSIVE BToInt(_)
BToInt(a) == IF Len(a) = 0 THEN 0 ELSE a[1] + LimbBase * BToInt(Tail(a))

RECURSIVE BAddCarry(_, _, _)
BAddCarry(a, b, c) ==
  IF Len(a) = 0 /\ Len(b) = 0 THEN (IF c = 0 THEN <<>> ELSE <<c>>)
  ELSE LET x == IF Len(a) = 0 THEN 0 ELSE a[1]
           y == IF Len(b) = 0 THEN 0 ELSE b[1]
           t == x + y + c
       IN  <<t % LimbBase>> \o
           BAddCarry(IF Len(a) = 0 THEN a ELSE Tail(a),
                     IF Len(b) = 0 THEN b ELSE Tail(b), t \div LimbBase)

BAdd(a, b) == BAddCarry(a, b, 0)

\* a - b for a >= b
RECURSIVE BSubBorrow(_, _, _)
BSubBorrow(a, b, c) ==
  IF Len(a) = 0 THEN <<>>
  ELSE LET y == IF Len(b) = 0 THEN 0 ELSE b[1]
           t == a[1] - y - c
       IN  <<t % LimbBase>> \o
           BSubBorrow(Tail(a), IF Len(b) = 0 THEN b ELSE Tail(b), IF t < 0 THEN 1 ELSE 0)

BSub(a, b) == BStrip(BSubBorrow(a, b, 0))

\* -1, 0 or 1 as a < b, a = b or a > b
RECURSIVE BCmp(_, _)
BCmp(a, b) ==
  IF Len(a) # Len(b) THEN (IF Len(a) < Len(b) THEN -1 ELSE 1)
  ELSE IF Len(a) = 0 THEN 0
  ELSE IF a[Len(a)] # b[Len(b)] THEN (IF a[Len(a)] < b[Len(b)] THEN -1 ELSE 1)
  ELSE BCmp(BStrip(SubSeq(a, 1, Len(a) - 1)), BStrip(SubSeq(b, 1, Len(b) - 1)))

\* a * c for 0 <= c < LimbBase
RECURSIVE BMulSmallCarry(_, _, _)
BMulSmallCarry(a, c, carry) ==
  IF Len(a) = 0 THEN (IF carry = 0 THEN <<>> ELSE <<carry>>)
  ELSE LET t == a[1] * c + carry
       IN  <<t % LimbBase>> \o BMulSmallCarry(Tail(a), c, t \div LimbBase)

BMulSmall(a, c) == BStrip(BMulSmallCarry(a, c, 0))

\* a * LimbBase
BShiftLimb(a) == IF Len(a) = 0 THEN a ELSE <<0>> \o a

RECURSIVE BMul(_, _)
BMul(a, b) ==
  IF Len(b) = 0 \/ Len(a) = 0 THEN <<>>
  ELSE BAdd(BMulSmall(a, b[1]), BShiftLimb(BMul(a, Tail(b))))

\* quotient and remainder of a by c, 0 < c < LimbBase
BDivLimb(highQ, cur, c) == [q |-> BStrip(<<cur \div c>> \o highQ), r |-> cur % c]

BDivStep(high, limb, c) == BDivLimb(high.q, high.r * LimbBase + limb, c)

RECURSIVE BDivSmall(_, _)
BDivSmall(a, c) ==
  IF Len(a) = 0 THEN [q |-> <<>>, r |-> 0]
  ELSE BDivStep(BDivSmall(Tail(a), c), a[1], c)

\* a * 2^k
BShl(a, k) ==
  IF Len(a) = 0 THEN a
  ELSE [i \in 1..(k \div LimbBits) |-> 0] \o BMulSmall(a, 2 ^ (k % LimbBits))

\* floor(a / 2^k), and whether a one bit was shifted out
BShrBits(d, lost) == [q |-> d.q, sticky |-> lost \/ d.r # 0]

BShrLimbs(a, limbs, bits) ==
  BShrBits(BDivSmall(IF limbs >= Len(a) THEN <<>> ELSE SubSeq(a, limbs + 1, Len(a)),
                     2 ^ bits),
           \E i \in 1..Len(a) : i <= limbs /\ a[i] # 0)

BShr(a, k) == BShrLimbs(a, k \div LimbBits, k % LimbBits)

RECURSIVE IntBitLen(_)
IntBitLen(i) == IF i = 0 THEN 0 ELSE 1 + IntBitLen(i \div 2)

BBitLen(a) == IF Len(a) = 0 THEN 0 ELSE (Len(a) - 1) * LimbBits + IntBitLen(a[Len(a)])

BIsOdd(a) == Len(a) > 0 /\ a[1] % 2 = 1

(* IEEE-754 binary64 values in the normal range: [neg, m, e] stands for     *)
(* (-1)^neg * m * 2^e with 2^52 <= m < 2^53, and zero is [FALSE, <<>>, 0]   *)

MantissaBits == 53

FZero == [neg |-> FALSE, m |-> <<>>, e |-> 0]

\* round to nearest, ties to even: the double nearest to (-1)^neg * (n + f) * 2^e,
\* where 0 <= f < 1 and sticky says whether f > 0
\* a carry out of the top bit halves the mantissa
FRenormalize(neg, q, e) ==
  IF BBitLen(q) > MantissaBits
  THEN [neg |-> neg, m |-> BShr(q, 1).q, e |-> e + 1]
  ELSE [neg |-> neg, m |-> q, e |-> e]

\* q the bits kept, roundBit the first bit dropped, rest whether a later one is 1
FRoundUp(neg, q, e, roundBit, rest) ==
  FRenormalize(neg, IF roundBit /\ (rest \/ BIsOdd(q)) THEN BAdd(q, <<1>>) ELSE q, e)

\* toRound holds the bits kept and the first bit dropped
FRoundDropped(neg, toRound, e, sticky) ==
  FRoundUp(neg, BShr(toRound.q, 1).q, e, BIsOdd(toRound.q), toRound.sticky \/ sticky)

FRoundAtLength(neg, n, e, sticky, len) ==
  IF len = 0 THEN FZero
  ELSE IF len <= MantissaBits
  THEN [neg |-> neg, m |-> BShl(n, MantissaBits - len), e |-> e - (MantissaBits - len)]
  ELSE FRoundDropped(neg, BShr(n, len - MantissaBits - 1), e + (len - MantissaBits), sticky)

FRoundNearestEven(neg, n, e, sticky) == FRoundAtLength(neg, n, e, sticky, BBitLen(n))

FFromInt(i) == FRoundNearestEven(i < 0, BFromInt(IF i < 0 THEN -i ELSE i), 0, FALSE)

\* x + y
\* the sum of two magnitudes at one exponent, with their signs
FAddCompared(xneg, xm, yneg, ym, e, cmp) ==
  FRoundNearestEven(IF xneg = yneg \/ cmp >= 0 THEN xneg ELSE yneg,
                    IF xneg = yneg THEN BAdd(xm, ym)
                    ELSE IF cmp >= 0 THEN BSub(xm, ym) ELSE BSub(ym, xm),
                    e, FALSE)

FAddAligned(xneg, xm, yneg, ym, e) == FAddCompared(xneg, xm, yneg, ym, e, BCmp(xm, ym))

FAddAt(x, y, e) == FAddAligned(x.neg, BShl(x.m, x.e - e), y.neg, BShl(y.m, y.e - e), e)

FAdd(x, y) ==
  IF Len(x.m) = 0 THEN y
  ELSE IF Len(y.m) = 0 THEN x
  ELSE FAddAt(x, y, IF x.e < y.e THEN x.e ELSE y.e)

FNeg(x) == IF Len(x.m) = 0 THEN x ELSE [x EXCEPT !.neg = ~x.neg]

\* x - y
FSub(x, y) == FAdd(x, FNeg(y))

\* x * y
FMul(x, y) ==
  IF Len(x.m) = 0 \/ Len(y.m) = 0 THEN FZero
  ELSE FRoundNearestEven(x.neg # y.neg, BMul(x.m, y.m), x.e + y.e, FALSE)

\* x / c for an integer c with 0 < c < LimbBase
FDivQuotient(neg, d, e) == FRoundNearestEven(neg, d.q, e, d.r # 0)

FDivInt(x, c) ==
  IF Len(x.m) = 0 THEN FZero
  ELSE FDivQuotient(x.neg, BDivSmall(BShl(x.m, 2 * LimbBits), c), x.e - 2 * LimbBits)

\* x < 0
FIsNegative(x) == x.neg /\ Len(x.m) > 0

\* Math.max(0, x)
FMaxZero(x) == IF FIsNegative(x) THEN FZero ELSE x

\* Math.round(x) for x >= 0: floor(x + 1/2), computed exactly
FMathRound(x) ==
  IF Len(x.m) = 0 THEN 0
  ELSE IF x.e >= 0 THEN BToInt(BShl(x.m, x.e))
  ELSE BToInt(BShr(BAdd(x.m, BShl(<<1>>, -x.e - 1)), -x.e).q)

----------------------------------------------------------------------------
(* computeMrr and computeRevenueByPlan over binary64 numbers: the same      *)
(* operations in the same order as the source, each one rounded            *)

\* types.ts lines 213-218: the switch over the interval
scalePerIntervalDouble(perInterval, interval) ==
  CASE interval = "month" -> perInterval
    [] interval = "year"  -> FDivInt(perInterval, 12)
    [] interval = "week"  -> FMul(perInterval, FDivInt(FFromInt(52), 12))
    [] interval = "day"   -> FMul(perInterval, FDivInt(FFromInt(365), 12))

\* types.ts normalizeToMonthlyCents, amountCents a double
normalizeToMonthlyCentsDouble(amountCents, interval, intervalCount) ==
  scalePerIntervalDouble(FDivInt(amountCents, intervalCount), interval)

\* the sum over the items, from 0, in item order
RECURSIVE SumItemsDouble(_)
SumItemsDouble(items) ==
  IF Len(items) = 0 THEN FZero
  ELSE FAdd(SumItemsDouble(SubSeq(items, 1, Len(items) - 1)),
            normalizeToMonthlyCentsDouble(
              FFromInt(items[Len(items)].unitAmountCents * items[Len(items)].quantity),
              items[Len(items)].interval, items[Len(items)].intervalCount))

\* mrr.ts lines 87-108 and plans.ts lines 86-101: the discount, then the clamp
discountedDouble(monthlyAmount, discount, firstItem) ==
  FMaxZero(
    IF IsNull(discount) THEN monthlyAmount
    ELSE IF ~IsNull(Val(discount).percentOff)
    THEN FMul(monthlyAmount,
              FSub(FFromInt(1), FDivInt(FFromInt(Val(Val(discount).percentOff)), 100)))
    ELSE IF ~IsNull(Val(discount).amountOff)
    THEN FSub(monthlyAmount,
              normalizeToMonthlyCentsDouble(FFromInt(Val(Val(discount).amountOff)),
                                            firstItem.interval, firstItem.intervalCount))
    ELSE monthlyAmount)

\* mrr.ts lines 69-111, the reduce callback: what one subscription adds
mrrReduceStepDouble(subscription) ==
  IF Len(subscription.items) = 0 THEN FZero
  ELSE discountedDouble(SumItemsDouble(subscription.items), subscription.discount,
                        subscription.items[1])

\* total + monthlyAmount, subscription after subscription, from 0
RECURSIVE mrrReduceDouble(_)
mrrReduceDouble(subs) ==
  IF Len(subs) = 0 THEN FZero
  ELSE FAdd(mrrReduceDouble(SubSeq(subs, 1, Len(subs) - 1)),
            mrrReduceStepDouble(subs[Len(subs)]))

computeMrrDouble(subscriptions) ==
  IF Len(subscriptions) = 0
  THEN Return([totalMrrCents |-> 0, currency |-> usd, subscriptionCount |-> 0,
               statusBreakdown |-> [active |-> 0, trialing |-> 0, pastDue |-> 0]])
  ELSE IF Cardinality(mrrCurrencies(subscriptions)) > 1
  THEN Throw(MixedCurrencyError(mrrCurrencies(subscriptions)))
  ELSE Return([totalMrrCents |->
                 FMathRound(mrrReduceDouble(mrrSubscriptionsOf(subscriptions))),
               currency |-> toLowerCase(subscriptions[1].currency),
               subscriptionCount |-> Len(mrrSubscriptionsOf(subscriptions)),
               statusBreakdown |->
                 [active   |-> CountStatus(subscriptions, "active"),
                  trialing |-> CountStatus(subscriptions, "trialing"),
                  pastDue  |-> CountStatus(subscriptions, "past_due")]])

\* plans.ts lines 74-101: the revenue of one subscription that has an item
planSubscriptionMrrDouble(sub) ==
  discountedDouble(SumItemsDouble(sub.items), sub.discount, sub.items[1])

\* plans.ts lines 104-122: the subscription's revenue added to its plan's entry
planMapAddDouble(planMap, planKey, subscriptionMrr) ==
  IF \E k \in DOMAIN planMap : planMap[k].planName = planKey
  THEN [k \in DOMAIN planMap |->
          IF planMap[k].planName = planKey
          THEN [planMap[k] EXCEPT !.activeSubscribers = @ + 1,
                                  !.mrrCents = FAdd(@, subscriptionMrr)]
          ELSE planMap[k]]
  ELSE Append(planMap, [planName |-> planKey,
                        activeSubscribers |-> 1,
                        mrrCents |-> subscriptionMrr])

\* plans.ts lines 64-123, one iteration
planMapStepDouble(planMap, sub) ==
  IF Len(sub.items) = 0 THEN planMap
  ELSE planMapAddDouble(planMap, planKeyOf(sub), planSubscriptionMrrDouble(sub))

\* plans.ts lines 64-123: planMap after the loop, entries in insertion order
RECURSIVE planMapOfDouble(_)
planMapOfDouble(activeSubscriptions) ==
  IF Len(activeSubscriptions) = 0 THEN <<>>
  ELSE planMapStepDouble(
         planMapOfDouble(SubSeq(activeSubscriptions, 1, Len(activeSubscriptions) - 1)),
         activeSubscriptions[Len(activeSubscriptions)])

\* plans.ts lines 126-129
RECURSIVE planMapTotalDouble(_)
planMapTotalDouble(planMap) ==
  IF Len(planMap) = 0 THEN FZero
  ELSE FAdd(planMapTotalDouble(SubSeq(planMap, 1, Len(planMap) - 1)),
            planMap[Len(planMap)].mrrCents)

\* plans.ts lines 126-147; the rows carry planName, activeSubscribers and the
\* rounded mrrCents
planResultDouble(planMap, currency) ==
  Return([plans |-> sortPlans([k \in DOMAIN planMap |->
                                 [planName |-> planMap[k].planName,
                                  activeSubscribers |-> planMap[k].activeSubscribers,
                                  mrrCents |-> FMathRound(planMap[k].mrrCents)]]),
          totalMrrCents |-> FMathRound(planMapTotalDouble(planMap)),
          currency |-> currency])

\* plans.ts lines 33-147, activeSubscriptions the filtered list
planResultOfActiveDouble(activeSubscriptions) ==
  IF Len(activeSubscriptions) = 0
  THEN Return([plans |-> <<>>, totalMrrCents |-> 0, currency |-> usd])
  ELSE IF Cardinality({toLowerCase(activeSubscriptions[i].currency) :
                         i \in DOMAIN activeSubscriptions}) > 1
  THEN Throw(MixedCurrencyError({toLowerCase(activeSubscriptions[i].currency) :
                                   i \in DOMAIN activeSubscriptions}))
  ELSE planResultDouble(planMapOfDouble(activeSubscriptions),
                        toLowerCase(activeSubscriptions[1].currency))

computeRevenueByPlanDouble(subscriptions) ==
  planResultOfActiveDouble(planActiveSubscriptions(subscriptions))

----------------------------------------------------------------------------
(* The snapshots the functions are applied to                              *)

MaxSubs == 2
MaxCanceled == 1
MaxEvents == 1
MaxPeriodDays == 1
NowBase == 864000

\* creation / cancellation / event times around the one-day period boundary
TBoundary == NowBase - SecondsPerDay
TBefore == TBoundary - 1

SeqsUpTo(S, n) == UNION {[1..k -> S] : k \in 0..n}

Item(planName, unitAmountCents, quantity, interval, intervalCount) ==
  [planName |-> planName, unitAmountCents |-> unitAmountCents, quantity |-> quantity,
   interval |-> interval, intervalCount |-> intervalCount]

Discount(percentOff, amountOff) == [percentOff |-> percentOff, amountOff |-> amountOff]

Sub(status, currency, createdAt, canceledAt, discount, items) ==
  [status |-> status, currency |-> currency, createdAt |-> createdAt,
   canceledAt |-> canceledAt, trialEnd |-> Null, discount |-> discount, items |-> items]

Event(type, created, amountCents, previousAmountCents) ==
  [type |-> type, created |-> created, amountCents |-> amountCents,
   previousAmountCents |-> previousAmountCents]

eur == <<"e", "u", "r">>
USD == <<"U", "S", "D">>

BasicMonthly == Item("basic", 1000, 1, "month", 1)

\* (a) statuses and currency codes vary, the amount does not
CurrencySubs ==
  {Sub(st, cur, TBoundary, Null, Null, <<BasicMonthly>>) :
     st \in {"active", "past_due", "trialing"}, cur \in {usd, USD, eur}}
  \cup {Sub("canceled", eur, TBoundary, Some(TBoundary), Null, <<BasicMonthly>>)}

CurrencyCanceled ==
  {Sub("canceled", cur, TBefore, Some(TBoundary), Null, <<BasicMonthly>>) :
     cur \in {usd, eur}}

\* (b) items and discounts vary, in one currency
ItemLists ==
  { <<>>,
    <<Item("pro", 25, 1, "week", 1)>>,
    <<Item("basic", 1, 1, "month", 2)>>,
    <<Item("pro", 100, 3, "day", 2), Item("basic", 12000, 1, "year", 2)>> }

Discounts ==
  { Null,
    Some(Discount(Some(10), Null)),
    Some(Discount(Some(150), Null)),
    Some(Discount(Null, Some(50))),
    Some(Discount(Some(0), Some(50))) }

AmountSubs ==
  {Sub("active", usd, TBefore, Null, d, it) : d \in Discounts, it \in ItemLists}

AmountCanceled ==
  { Sub("canceled", usd, TBefore, Some(TBoundary), Null, <<BasicMonthly>>) }

\* (c) creation and cancellation times vary around the period boundary
PeriodSubs ==
  {Sub(st, usd, t, Null, Null, <<BasicMonthly>>) :
     st \in {"active", "past_due", "trialing"}, t \in {TBefore, TBoundary}}

PeriodDaysValues == -1..MaxPeriodDays

PeriodCanceled ==
  {Sub("canceled", usd, TBefore, c, Null, <<BasicMonthly>>) :
     c \in {Null, Some(TBefore), Some(TBoundary)}}
  \cup {Sub("active", usd, TBefore, Null, Null, <<BasicMonthly>>)}

\* (d) events vary, next to at most one new and one canceled subscription
PeriodEvents ==
  {Event("customer.subscription.updated", t, a[1], a[2]) :
     t \in {TBefore, TBoundary},
     a \in {<<Some(2000), Some(1000)>>, <<Some(1000), Some(2000)>>,
            <<Some(1000), Some(1000)>>, <<Null, Some(1000)>>, <<Some(1000), Null>>}}
  \cup {Event("customer.subscription.created", TBoundary, Some(2000), Some(1000))}

NotCalled == [op |-> "none"]

\* no tool call is being handled
NoRequest == [name |-> "none"]

InitCurrencies ==
  /\ currentSubs \in SeqsUpTo(CurrencySubs, MaxSubs)
  /\ canceledSubs \in SeqsUpTo(CurrencyCanceled, MaxCanceled)
  /\ events = <<>>
  /\ periodDays = 1

InitAmounts ==
  /\ currentSubs \in SeqsUpTo(AmountSubs, MaxSubs)
  /\ canceledSubs \in SeqsUpTo(AmountCanceled, MaxCanceled)
  /\ events = <<>>
  /\ periodDays = 1

InitPeriods ==
  /\ currentSubs \in SeqsUpTo(PeriodSubs, MaxSubs)
  /\ canceledSubs \in SeqsUpTo(PeriodCanceled, MaxCanceled)
  /\ events = <<>>
  /\ periodDays \in PeriodDaysValues

InitEvents ==
  /\ currentSubs \in
       {<<>>, <<Sub("active", usd, TBoundary, Null, Null, <<BasicMonthly>>)>>,
        <<Sub("active", usd, TBoundary, Null, Null, <<Item("basic", 1, 1, "month", 2)>>)>>,
        <<Sub("active", usd, TBefore, Null, Null, <<Item("basic", 1, 1, "month", 2)>>),
          Sub("active", usd, TBoundary, Null, Null, <<Item("basic", 1, 1, "month", 2)>>)>>}
  /\ canceledSubs \in
       {<<>>, <<Sub("canceled", usd, TBefore, Some(TBoundary), Null, <<BasicMonthly>>)>>,
        <<Sub("canceled", usd, TBefore, Some(TBoundary), Some(Discount(Some(50), Null)),
              <<Item("basic", 1, 1, "month", 2)>>)>>}
  /\ events \in SeqsUpTo(PeriodEvents, MaxEvents)
  /\ periodDays \in PeriodDaysValues

Init ==
  /\ InitCurrencies \/ InitAmounts \/ InitPeriods \/ InitEvents
  /\ now = NowBase
  /\ request = NoRequest
  /\ result = NotCalled

----------------------------------------------------------------------------
(* One action per metric function, applied to the snapshot.  result holds  *)
(* the outcome of the call until the caller takes it.                      *)

CallComputeMrr ==
  /\ result = NotCalled
  /\ result' = [op |-> "computeMrr", outcome |-> computeMrr(currentSubs)]
  /\ UNCHANGED <<currentSubs, canceledSubs, events, periodDays, now, request>>

CallComputeRevenueByPlan ==
  /\ result = NotCalled
  /\ result' = [op |-> "computeRevenueByPlan", outcome |-> computeRevenueByPlan(currentSubs)]
  /\ UNCHANGED <<currentSubs, canceledSubs, events, periodDays, now, request>>

CallComputeChurn ==
  /\ result = NotCalled
  /\ result' = [op |-> "computeChurn",
                outcome |-> computeChurn(currentSubs, canceledSubs, periodDays, now)]
  /\ UNCHANGED <<currentSubs, canceledSubs, events, periodDays, now, request>>

CallComputeMrrMovement ==
  /\ result = NotCalled
  /\ result' = [op |-> "computeMrrMovement",
                outcome |-> computeMrrMovement(currentSubs, canceledSubs, events,
                                               periodDays, now)]
  /\ UNCHANGED <<currentSubs, canceledSubs, events, periodDays, now, request>>

\* the caller takes the result; the snapshot stays for the next call
TakeResult ==
  /\ result # NotCalled
  /\ result' = NotCalled
  /\ UNCHANGED <<currentSubs, canceledSubs, events, periodDays, now, request>>

Next ==
  \/ CallComputeMrr
  \/ CallComputeRevenueByPlan
  \/ CallComputeChurn
  \/ CallComputeMrrMovement
  \/ TakeResult

Spec == Init /\ [][Next]_vars

----------------------------------------------------------------------------
(* The two totals over binary64 numbers.  Three subscriptions are the      *)
(* fewest for which the two functions add the contributions in different   *)
(* orders.                                                                 *)

MaxDoubleSubs == 3

DoubleSubs ==
  { Sub("active", usd, TBefore, Null, Null, <<Item("pro", 25, 1, "week", 1)>>),
    Sub("active", usd, TBefore, Null, Some(Discount(Some(10), Null)),
        <<Item("basic", 45, 1, "month", 1)>>),
    Sub("past_due", usd, TBefore, Null, Null, <<Item("pro", 41, 1, "month", 3)>>),
    Sub("trialing", usd, TBefore, Null, Some(Discount(Null, Some(50))),
        <<Item("basic", 12000, 1, "year", 2)>>) }

InitDouble ==
  /\ currentSubs \in SeqsUpTo(DoubleSubs, MaxDoubleSubs)
  /\ canceledSubs = <<>>
  /\ events = <<>>
  /\ periodDays = 1
  /\ now = NowBase
  /\ request = NoRequest
  /\ result = NotCalled

CallComputeMrrDouble ==
  /\ result = NotCalled
  /\ result' = [op |-> "computeMrr", outcome |-> computeMrrDouble(currentSubs)]
  /\ UNCHANGED <<currentSubs, canceledSubs, events, periodDays, now, request>>

CallComputeRevenueByPlanDouble ==
  /\ result = NotCalled
  /\ result' = [op |-> "computeRevenueByPlan",
                outcome |-> computeRevenueByPlanDouble(currentSubs)]
  /\ UNCHANGED <<currentSubs, canceledSubs, events, periodDays, now, request>>

NextDouble ==
  \/ CallComputeMrrDouble
  \/ CallComputeRevenueByPlanDouble
  \/ TakeResult

SpecDouble == InitDouble /\ [][NextDouble]_vars

----------------------------------------------------------------------------
(* The dashboard: trials that end around the look-ahead window, revenue    *)
(* that is new or churned in the period, amount changes                    *)

TrialSub(status, trialEnd, discount, items) ==
  [Sub(status, usd, TBefore, Null, discount, items) EXCEPT !.trialEnd = trialEnd]

TrialEnds ==
  { Null, Some(NowBase), Some(NowBase + 1), Some(NowBase + SecondsPerDay + 1),
    Some(NowBase + TrialWindowDays * SecondsPerDay),
    Some(NowBase + TrialWindowDays * SecondsPerDay + 1) }

DashboardSubs ==
  {TrialSub("trialing", t, Some(Discount(Some(10), Null)), <<Item("pro", 25, 1, "week", 1)>>) :
     t \in TrialEnds}
  \cup
  { TrialSub("trialing", Some(NowBase + 1), Some(Discount(Null, Some(50))), <<>>),
    TrialSub("active", Some(NowBase + 1), Null, <<BasicMonthly>>),
    Sub("active", usd, TBoundary, Null, Null, <<BasicMonthly>>),
    Sub("active", eur, TBoundary, Null, Null, <<BasicMonthly>>) }

DashboardCanceled ==
  { Sub("canceled", usd, TBefore, Some(TBoundary), Null,
        <<Item("basic", 3000, 1, "month", 1)>>) }

DashboardEvents ==
  { Event("customer.subscription.updated", TBoundary, Some(2000), Some(1000)),
    Event("customer.subscription.updated", TBoundary, Some(1000), Some(1001)) }

InitDashboard ==
  /\ currentSubs \in SeqsUpTo(DashboardSubs, MaxSubs)
  /\ canceledSubs \in SeqsUpTo(DashboardCanceled, MaxCanceled)
  /\ events \in SeqsUpTo(DashboardEvents, MaxEvents)
  /\ periodDays = 1
  /\ now = NowBase
  /\ request = NoRequest
  /\ result = NotCalled

CallGetExpiringTrials ==
  /\ result = NotCalled
  /\ result' = [op |-> "getExpiringTrials",
                outcome |-> Return(getExpiringTrials(currentSubs, TrialWindowDays, now))]
  /\ UNCHANGED <<currentSubs, canceledSubs, events, periodDays, now, request>>

CallComputeDashboard ==
  /\ result = NotCalled
  /\ result' = [op |-> "computeDashboard",
                outcome |-> computeDashboard(currentSubs, canceledSubs, events,
                                             periodDays, now)]
  /\ UNCHANGED <<currentSubs, canceledSubs, events, periodDays, now, request>>

NextDashboard ==
  \/ CallGetExpiringTrials
  \/ CallComputeDashboard
  \/ TakeResult

SpecDashboard == InitDashboard /\ [][NextDashboard]_vars

----------------------------------------------------------------------------
(* Subscriber statistics: statuses, creation and cancellation times vary    *)

StatsSubs ==
  {Sub(st, usd, t, c, Null, <<BasicMonthly>>) :
     st \in {"active", "trialing", "past_due", "canceled"},
     t \in {TBefore, TBoundary},
     c \in {Null, Some(TBefore), Some(TBoundary)}}

InitSubscribers ==
  /\ currentSubs \in SeqsUpTo(StatsSubs, MaxSubs)
  /\ canceledSubs = <<>>
  /\ events = <<>>
  /\ periodDays \in PeriodDaysValues
  /\ now = NowBase
  /\ request = NoRequest
  /\ result = NotCalled

CallComputeSubscriberStats ==
  /\ result = NotCalled
  /\ result' = [op |-> "computeSubscriberStats",
                outcome |-> computeSubscriberStats(currentSubs, periodDays, now)]
  /\ UNCHANGED <<currentSubs, canceledSubs, events, periodDays, now, request>>

NextSubscribers ==
  \/ CallComputeSubscriberStats
  \/ TakeResult

SpecSubscribers == InitSubscribers /\ [][NextSubscribers]_vars

----------------------------------------------------------------------------
(* Recent changes: event types, amounts and days vary; periodDays holds the *)
(* days argument                                                           *)

MaxChangeEvents == 2

\* two times of one UTC day and one of the day before
ChangeTimes == {TBefore, TBoundary, TBoundary + 1}

ChangeEvents ==
  {Event("customer.subscription.updated", t, a[1], a[2]) :
     t \in ChangeTimes,
     a \in {<<Some(2000), Some(1000)>>, <<Some(1000), Some(2000)>>,
            <<Some(1000), Some(1000)>>, <<Null, Some(1000)>>, <<Some(1000), Null>>}}
  \cup
  {Event(ty, t, Some(1000), Null) :
     ty \in {"customer.subscription.created", "customer.subscription.deleted",
             "invoice.payment_failed", "invoice.paid"},
     t \in ChangeTimes}

InitChanges ==
  /\ currentSubs = <<>>
  /\ canceledSubs = <<>>
  /\ events \in SeqsUpTo(ChangeEvents, MaxChangeEvents)
  /\ periodDays \in 1..(MaxPeriodDays + 1)
  /\ now = NowBase
  /\ request = NoRequest
  /\ result = NotCalled

\* variant: the sort by date descending applied to the events array itself
RECURSIVE sortEventsInPlace(_)
sortEventsInPlace(eventsArg) ==
  IF Len(eventsArg) = 0 THEN <<>>
  ELSE
    LET sorted == sortEventsInPlace(SubSeq(eventsArg, 1, Len(eventsArg) - 1))
        event == eventsArg[Len(eventsArg)]
        before == Cardinality({k \in DOMAIN sorted : sorted[k].created >= event.created})
    IN  SubSeq(sorted, 1, before) \o <<event>> \o SubSeq(sorted, before + 1, Len(sorted))

CallComputeRecentChangesSortingEvents ==
  /\ result = NotCalled
  /\ result' = [op |-> "computeRecentChanges",
                outcome |-> computeRecentChanges(events, periodDays)]
  /\ events' = sortEventsInPlace(events)
  /\ UNCHANGED <<currentSubs, canceledSubs, periodDays, now, request>>

CallComputeRecentChanges ==
  /\ result = NotCalled
  /\ result' = [op |-> "computeRecentChanges",
                outcome |-> computeRecentChanges(events, periodDays)]
  /\ UNCHANGED <<currentSubs, canceledSubs, events, periodDays, now, request>>

NextChanges ==
  \/ CallComputeRecentChanges
  \/ TakeResult

SpecChanges == InitChanges /\ [][NextChanges]_vars

----------------------------------------------------------------------------
(* One snapshot handed to every metric function, call after call           *)

SnapshotSubs ==
  { TrialSub("trialing", Some(NowBase + SecondsPerDay + 1), Null, <<BasicMonthly>>),
    TrialSub("trialing", Some(NowBase + 1), Null, <<Item("pro", 25, 1, "week", 1)>>),
    Sub("active", usd, TBoundary, Null, Null, <<Item("pro", 25, 1, "week", 1)>>),
    Sub("past_due", eur, TBefore, Null, Null, <<BasicMonthly>>) }

SnapshotEvents ==
  { Event("customer.subscription.created", TBefore, Some(1000), Null),
    Event("customer.subscription.updated", TBoundary, Some(2000), Some(1000)),
    Event("invoice.paid", TBoundary, Some(1000), Null) }

InitSnapshot ==
  /\ currentSubs \in SeqsUpTo(SnapshotSubs, MaxSubs)
  /\ canceledSubs \in SeqsUpTo(DashboardCanceled, MaxCanceled)
  /\ events \in SeqsUpTo(SnapshotEvents, MaxChangeEvents)
  /\ periodDays = 1
  /\ now = NowBase
  /\ request = NoRequest
  /\ result = NotCalled

NextSnapshot ==
  \/ CallComputeMrr
  \/ CallComputeChurn
  \/ CallComputeRevenueByPlan
  \/ CallComputeMrrMovement
  \/ CallGetExpiringTrials
  \/ CallComputeDashboard
  \/ CallComputeSubscriberStats
  \/ CallComputeRecentChanges
  \/ TakeResult

SpecSnapshot == InitSnapshot /\ [][NextSnapshot]_vars

----------------------------------------------------------------------------
(* One subscription: its items' amounts, intervals and counts and its       *)
(* discount vary; each of the four contribution computations is applied    *)

MaxIntervalCount == 2

ContributionItemLists ==
  {<<Item("basic", a, 1, iv, c)>> :
     a \in {1, 12000, 24000}, iv \in {"month", "year", "week", "day"},
     c \in 1..MaxIntervalCount}
  \cup
  { <<>>, <<Item("pro", 100, 3, "day", 2), Item("basic", 12000, 1, "year", 2)>> }

ContributionDiscounts ==
  Discounts \cup { Some(Discount(Some(10), Some(50))), Some(Discount(Null, Null)) }

InitContribution ==
  /\ currentSubs \in
       {<<Sub("active", usd, TBefore, Null, d, it)>> :
          d \in ContributionDiscounts, it \in ContributionItemLists}
  /\ canceledSubs = <<>>
  /\ events = <<>>
  /\ periodDays = 1
  /\ now = NowBase
  /\ request = NoRequest
  /\ result = NotCalled

\* the first item's amount normalized, as each contribution computation does
CallNormalizeToMonthlyCents ==
  /\ result = NotCalled
  /\ Len(currentSubs[1].items) > 0
  /\ result' = [op |-> "normalizeToMonthlyCents",
                outcome |-> Return(normalizeToMonthlyCents(
                  Int2Q(currentSubs[1].items[1].unitAmountCents
                          * currentSubs[1].items[1].quantity),
                  currentSubs[1].items[1].interval,
                  currentSubs[1].items[1].intervalCount))]
  /\ UNCHANGED <<currentSubs, canceledSubs, events, periodDays, now, request>>

\* what the subscription adds in computeMrr, computeChurn's total helper,
\* computeRevenueByPlan (which skips a subscription without items) and the
\* dashboard helper
CallContributions ==
  /\ result = NotCalled
  /\ result' = [op |-> "contributions",
                outcome |-> Return(
                  [mrr |-> mrrReduceStep(currentSubs[1]),
                   churn |-> churnReduceStep(currentSubs[1]),
                   plans |-> IF Len(currentSubs[1].items) = 0 THEN Zero
                             ELSE planSubscriptionMrr(currentSubs[1]),
                   dashboard |-> computeSubscriptionMrr(currentSubs[1])])]
  /\ UNCHANGED <<currentSubs, canceledSubs, events, periodDays, now, request>>

NextContribution ==
  \/ CallNormalizeToMonthlyCents
  \/ CallContributions
  \/ TakeResult

SpecContribution == InitContribution /\ [][NextContribution]_vars

----------------------------------------------------------------------------
(* Tool calls: the tool name, the days argument and the outcome of the      *)
(* Stripe call vary                                                        *)

\* what the Stripe SDK call raises
SdkError(type, code, message) ==
  [instanceOfError |-> TRUE, type |-> type, code |-> code, message |-> message]

StripeFailures ==
  { Null,
    Some(SdkError(Some("authentication_error"), Null, <<"Invalid", "API", "Key", "provided">>)),
    Some(SdkError(Null, Some("authentication_error"), <<>>)),
    Some(SdkError(Some("rate_limit"), Null, <<"Too", "many", "requests">>)),
    Some(SdkError(Null, Some("ECONNREFUSED"), <<"connect", "ECONNREFUSED">>)),
    Some(SdkError(Some("invalid_request_error"), Null, <<"Insufficient", "Permission">>)),
    Some(SdkError(Some("invalid_request_error"), Null, <<"No", "such", "customer">>)),
    Some(SdkError(Some("api_error"), Null, <<"Internal", "error">>)),
    Some(SdkError(Null, Null, <<"socket", "hang", "up">>)),
    Some([instanceOfError |-> FALSE]) }

ToolNames ==
  {"get_mrr", "get_churn", "get_revenue_by_plan", "get_subscriber_stats",
   "get_recent_changes", "get_dashboard"}

Requests ==
  [name : ToolNames, days : {Null, Some(0), Some(1), Some(91), Some(366)},
   stripeFailure : StripeFailures]

InitServer ==
  /\ currentSubs \in
       { <<>>,
         <<Sub("active", usd, TBefore, Null, Null, <<BasicMonthly>>)>>,
         <<Sub("active", usd, TBefore, Null, Null, <<BasicMonthly>>),
           Sub("active", eur, TBefore, Null, Null, <<BasicMonthly>>)>> }
  /\ canceledSubs = <<>>
  /\ events \in SeqsUpTo({Event("customer.subscription.created", TBoundary, Some(1000), Null)},
                         MaxEvents)
  /\ periodDays = 1
  /\ now = NowBase
  /\ request \in Requests
  /\ result = NotCalled

HandleCallTool ==
  /\ result = NotCalled
  /\ request # NoRequest
  /\ result' = [op |-> "CallTool",
                outcome |-> Return(callToolHandler(request, currentSubs, canceledSubs,
                                                   events, now))]
  /\ UNCHANGED <<currentSubs, canceledSubs, events, periodDays, now, request>>

NextServer ==
  \/ HandleCallTool
  \/ TakeResult

SpecServer == InitServer /\ [][NextServer]_vars

----------------------------------------------------------------------------
(* Vocabulary of the properties, written from the specification's wording  *)
(* and independent of the operators above                                  *)

Threw == result.outcome.threw
Value == result.outcome.value

SameCodeIgnoringCase(a, b) ==
  /\ Len(a) = Len(b)
  /\ \A i \in DOMAIN a : toUpperCaseChar(a[i]) = toUpperCaseChar(b[i])

SpansCurrencies(subs) ==
  \E i, j \in DOMAIN subs : ~SameCodeIgnoringCase(subs[i].currency, subs[j].currency)

ContributingIdx(subs) == {i \in DOMAIN subs : subs[i].status \in {"active", "past_due"}}

\* the subsequence of subs at the indices in I
RECURSIVE Restrict(_, _)
Restrict(subs, I) ==
  IF Len(subs) = 0 THEN <<>>
  ELSE LET front == Restrict(SubSeq(subs, 1, Len(subs) - 1), I)
       IN  IF Len(subs) \in I THEN front \o <<subs[Len(subs)]>> ELSE front

MonthsScale(interval) ==
  CASE interval = "month" -> Q(1, 1)
    [] interval = "year"  -> Q(1, 12)
    [] interval = "week"  -> Q(52, 12)
    [] interval = "day"   -> Q(365, 12)

\* unitAmount x quantity / intervalCount, scaled to a month
ItemMonthly(item) ==
  RMul(Q(item.unitAmountCents * item.quantity, item.intervalCount),
       MonthsScale(item.interval))

RECURSIVE PreDiscountSum(_)
PreDiscountSum(items) ==
  IF items = <<>> THEN Zero
  ELSE RAdd(ItemMonthly(Head(items)), PreDiscountSum(Tail(items)))

\* D(S): the sum S of a subscription with items, after its discount
AfterDiscount(sub) ==
  LET S == PreDiscountSum(sub.items)
      d == sub.discount
  IN  IF d = Null THEN S
      ELSE IF d[1].percentOff # Null
           THEN RMul(S, Q(100 - d[1].percentOff[1], 100))
      ELSE IF d[1].amountOff # Null
           THEN RSub(S, RMul(Q(d[1].amountOff[1], sub.items[1].intervalCount),
                             MonthsScale(sub.items[1].interval)))
      ELSE S

\* max(0, D(S)), and 0 for a subscription without items
Contribution(sub) ==
  IF sub.items = <<>> THEN Zero
  ELSE IF AfterDiscount(sub).n < 0 THEN Zero ELSE AfterDiscount(sub)

\* the exact sum of the contributions of subs[i], i in I
RECURSIVE ContributionSum(_, _)
ContributionSum(subs, I) ==
  IF I = {} THEN Zero
  ELSE LET i == CHOOSE k \in I : TRUE
       IN  RAdd(Contribution(subs[i]), ContributionSum(subs, I \ {i}))

----------------------------------------------------------------------------
\* C1: computeMrr raises the mixed-currency error exactly when two of its input
\* subscriptions, contributing or not, have currency codes that differ when
\* compared case-insensitively; computeChurn does so over allSubscriptions
\* followed by churnedSubscriptions.  Codes differing only in case never raise.
C1_MixedCurrencyRaises ==
  /\ result.op = "computeMrr" => (Threw <=> SpansCurrencies(currentSubs))
  /\ result.op = "computeChurn" => (Threw <=> SpansCurrencies(currentSubs \o canceledSubs))

\* computeMrr raised although its contributing subscriptions share one currency
C1_Witness ==
  /\ result.op = "computeMrr"
  /\ Threw
  /\ ContributingIdx(currentSubs) # {}
  /\ ~SpansCurrencies(Restrict(currentSubs, ContributingIdx(currentSubs)))

\* C2: computeMrrMovement raises the mixed-currency error whenever
\* currentSubscriptions and canceledSubscriptions together span more than one
\* currency code.
C2_MovementRaisesOnMixedCurrencies ==
  (result.op = "computeMrrMovement" /\ SpansCurrencies(currentSubs \o canceledSubs))
    => Threw

\* C3: in computeMrr's result the total is the one of the active and past_due
\* subscriptions alone (0 when there are none), and the status breakdown counts
\* active, trialing and past_due over every input subscription.
C3_OnlyActiveAndPastDueContribute ==
  (result.op = "computeMrr" /\ ~Threw) =>
    LET contributing == Restrict(currentSubs, ContributingIdx(currentSubs)) IN
    /\ Value.totalMrrCents = computeMrr(contributing).value.totalMrrCents
    /\ contributing = <<>> => Value.totalMrrCents = 0
    /\ Value.subscriptionCount = Len(contributing)
    /\ Value.statusBreakdown.active =
         Cardinality({i \in DOMAIN currentSubs : currentSubs[i].status = "active"})
    /\ Value.statusBreakdown.trialing =
         Cardinality({i \in DOMAIN currentSubs : currentSubs[i].status = "trialing"})
    /\ Value.statusBreakdown.pastDue =
         Cardinality({i \in DOMAIN currentSubs : currentSubs[i].status = "past_due"})

\* a result that counts a trialing subscription in the breakdown and not in the total
C3_Witness ==
  /\ result.op = "computeMrr"
  /\ ~Threw
  /\ Value.statusBreakdown.trialing > 0
  /\ Value.statusBreakdown.pastDue > 0
  /\ Value.totalMrrCents = 1000

\* C4: computeMrr's total is the rounded sum, over the active and past_due
\* subscriptions, of max(0, D(S)): S the sum of unitAmount x quantity /
\* intervalCount scaled by 1, 1/12, 52/12 or 365/12, D the percentage or the
\* normalized amount-off discount; a subscription without items adds 0.
C4_ContributionFormula ==
  (result.op = "computeMrr" /\ ~Threw) =>
    Value.totalMrrCents =
      MathRound(ContributionSum(currentSubs, ContributingIdx(currentSubs)))

\* an amount-off discount on a subscription billed other than monthly, and a
\* subscription without items that carries a discount
C4_Witness ==
  /\ result.op = "computeMrr"
  /\ ~Threw
  /\ Value.totalMrrCents > 0
  /\ \E i \in DOMAIN currentSubs :
       /\ currentSubs[i].items # <<>>
       /\ currentSubs[i].items[1].interval # "month"
       /\ currentSubs[i].discount # Null
       /\ currentSubs[i].discount[1].percentOff = Null
       /\ currentSubs[i].discount[1].amountOff # Null
       /\ AfterDiscount(currentSubs[i]).n > 0
  /\ \E i \in DOMAIN currentSubs :
       currentSubs[i].items = <<>> /\ currentSubs[i].discount # Null

\* C5: no monetary or count output is negative, whatever the discounts.
C5_NoNegativeOutput ==
  /\ (result.op = "computeMrr" /\ ~Threw) =>
       Value.totalMrrCents >= 0 /\ Value.subscriptionCount >= 0
  /\ (result.op = "computeChurn" /\ ~Threw) =>
       /\ Value.churnedCustomers >= 0
       /\ Value.churnedMrrCents >= 0
       /\ Value.startingCustomers >= 0
       /\ Value.startingMrrCents >= 0
  /\ (result.op = "computeRevenueByPlan" /\ ~Threw) =>
       \A k \in DOMAIN Value.plans :
         Value.plans[k].mrrCents >= 0 /\ Value.plans[k].activeSubscribers >= 0
  /\ (result.op = "computeMrrMovement" /\ ~Threw) =>
       /\ Value.newMrrCents >= 0
       /\ Value.expansionMrrCents >= 0
       /\ Value.contractionMrrCents >= 0
       /\ Value.churnedMrrCents >= 0

\* a total computed over a subscription whose discount exceeds its base amount
C5_Witness ==
  /\ result.op = "computeMrr"
  /\ ~Threw
  /\ \E i \in ContributingIdx(currentSubs) :
       currentSubs[i].items # <<>> /\ AfterDiscount(currentSubs[i]).n < 0

\* C6: for every subscription list in which all subscriptions share one
\* currency, computeRevenueByPlan's total revenue equals computeMrr's total
\* over the same list.
C6_PlanTotalEqualsMrrTotal ==
  (result.op = "computeRevenueByPlan" /\ ~SpansCurrencies(currentSubs)) =>
    /\ ~Threw
    /\ Value.totalMrrCents = computeMrrDouble(currentSubs).value.totalMrrCents

\* the rows of a computeRevenueByPlan result, summed
RECURSIVE RowRevenueSum(_)
RowRevenueSum(rows) ==
  IF rows = <<>> THEN 0 ELSE Head(rows).mrrCents + RowRevenueSum(Tail(rows))

\* C7: for a single-currency list, the sum of the rows' revenue values, each
\* rounded on its own, differs from computeMrr's total over the same list by at
\* most one minor unit per row.
C7_RowsSumWithinTolerance ==
  (result.op = "computeRevenueByPlan" /\ ~Threw /\ ~SpansCurrencies(currentSubs)) =>
    Abs(RowRevenueSum(Value.plans) - computeMrr(currentSubs).value.totalMrrCents)
      <= Len(Value.plans)

\* two rows whose separately rounded revenues do not add up to computeMrr's total
C7_Witness ==
  /\ result.op = "computeRevenueByPlan"
  /\ ~Threw
  /\ ~SpansCurrencies(currentSubs)
  /\ Len(Value.plans) = 2
  /\ RowRevenueSum(Value.plans) # computeMrr(currentSubs).value.totalMrrCents

\* C8: computeRevenueByPlan raises exactly when two active or past_due
\* subscriptions differ in currency; subscriptions of any other status neither
\* raise nor change its result, so it can return where computeMrr raises.
C8_PlanCurrencyCheckOverContributing ==
  (result.op = "computeRevenueByPlan") =>
    LET contributing == Restrict(currentSubs, ContributingIdx(currentSubs)) IN
    /\ Threw <=> SpansCurrencies(contributing)
    /\ result.outcome = computeRevenueByPlan(contributing)

\* computeRevenueByPlan returned rows for a list on which computeMrr raises
C8_Witness ==
  /\ result.op = "computeRevenueByPlan"
  /\ ~Threw
  /\ Value.plans # <<>>
  /\ computeMrr(currentSubs).threw

\* C9: every contributing subscription with at least one item is counted in
\* exactly one row, the one named after its first item's plan; that row's
\* subscriber count is the number of such subscriptions and its revenue the
\* rounded sum of their whole contributions; there is no other row.
C9_RowPerFirstItemPlan ==
  (result.op = "computeRevenueByPlan" /\ ~Threw) =>
    LET placed == {i \in ContributingIdx(currentSubs) : currentSubs[i].items # <<>>}
        names == {currentSubs[i].items[1].planName : i \in placed}
        members(name) == {i \in placed : currentSubs[i].items[1].planName = name}
    IN  /\ Len(Value.plans) = Cardinality(names)
        /\ \A name \in names :
             \E k \in DOMAIN Value.plans :
               /\ Value.plans[k].planName = name
               /\ Value.plans[k].activeSubscribers = Cardinality(members(name))
               /\ Value.plans[k].mrrCents =
                    MathRound(ContributionSum(currentSubs, members(name)))

\* one row shared by two subscriptions, one of which has a second item of
\* another plan
C9_Witness ==
  /\ result.op = "computeRevenueByPlan"
  /\ ~Threw
  /\ Len(Value.plans) = 1
  /\ Value.plans[1].activeSubscribers = 2
  /\ \E i \in DOMAIN currentSubs :
       /\ Len(currentSubs[i].items) = 2
       /\ currentSubs[i].items[2].planName # currentSubs[i].items[1].planName

\* the starting population of computeChurn and the two un-rounded revenues
StartingIdx ==
  LET P == IF periodDays <= 0 THEN 1 ELSE periodDays IN
  {i \in ContributingIdx(currentSubs) : currentSubs[i].createdAt < now - P * 86400}

StartingRevenue == ContributionSum(currentSubs, StartingIdx)
ChurnedRevenue == ContributionSum(canceledSubs, DOMAIN canceledSubs)

\* C10 as stated, for the part that reads only returned fields:
\* customerChurnRate is 0 when the returned startingCount is 0 and otherwise
\* churnedCount / startingCount x 100, and revenueChurnRate is 0 whenever the
\* returned startingRevenue is 0.
C10_RatesFromReturnedFields ==
  (result.op = "computeChurn" /\ ~Threw) =>
    /\ Value.startingCustomers = 0 => Value.customerChurnRate = Zero
    /\ Value.startingCustomers # 0 =>
         Value.customerChurnRate = Q(Value.churnedCustomers * 100, Value.startingCustomers)
    /\ Value.startingMrrCents = 0 => Value.revenueChurnRate = Zero

\* C10 amended: customerChurnRate is 0 when startingCount is 0 and otherwise
\* churnedCount / startingCount x 100; revenueChurnRate is 0 when the un-rounded
\* starting revenue is 0 and otherwise un-rounded churned revenue / un-rounded
\* starting revenue x 100.
C10_RatesFromUnroundedRevenue ==
  (result.op = "computeChurn" /\ ~Threw) =>
    /\ Value.startingCustomers = 0 => Value.customerChurnRate = Zero
    /\ StartingRevenue = Zero => Value.revenueChurnRate = Zero
    /\ Value.startingCustomers # 0 =>
         Value.customerChurnRate = Q(Value.churnedCustomers * 100, Value.startingCustomers)
    /\ StartingRevenue # Zero =>
         Value.revenueChurnRate = RDiv(RMul(ChurnedRevenue, Int2Q(100)), StartingRevenue)

\* an empty starting side with a non-empty churned collection
C10_Witness ==
  /\ result.op = "computeChurn"
  /\ ~Threw
  /\ Value.startingCustomers = 0
  /\ Value.startingMrrCents = 0
  /\ Value.churnedCustomers > 0
  /\ Value.churnedMrrCents > 0
  /\ Value.customerChurnRate = Zero
  /\ Value.revenueChurnRate = Zero


\* C11: the customerChurnRate and revenueChurnRate that computeChurn returns
\* lie between 0 and 100 inclusive.
C11_ChurnRatesWithinPercentRange ==
  (result.op = "computeChurn" /\ ~Threw) =>
    /\ RLe(Zero, Value.customerChurnRate) /\ RLe(Value.customerChurnRate, Int2Q(100))
    /\ RLe(Zero, Value.revenueChurnRate) /\ RLe(Value.revenueChurnRate, Int2Q(100))

\* C12: computeChurn's starting population is the active and past_due members
\* of allSubscriptions created strictly before now - P days, P = periodDays or
\* 1 when periodDays <= 0; startingCount is its size and startingRevenue its
\* summed contribution, in whole minor units.
C12_StartingPopulation ==
  (result.op = "computeChurn" /\ ~Threw) =>
    /\ Value.periodDays = (IF periodDays <= 0 THEN 1 ELSE periodDays)
    /\ Value.startingCustomers = Cardinality(StartingIdx)
    /\ Value.startingMrrCents = MathRound(StartingRevenue)

\* of two contributing subscriptions, the one created exactly at the boundary of
\* a non-positive periodDays is left out and the one created before it is counted
C12_Witness ==
  /\ result.op = "computeChurn"
  /\ ~Threw
  /\ periodDays <= 0
  /\ Value.startingCustomers = 1
  /\ Value.startingMrrCents = 1000
  /\ \E i, j \in ContributingIdx(currentSubs) :
       /\ currentSubs[i].createdAt = now - 86400
       /\ currentSubs[j].createdAt < now - 86400

\* C13: churnedCount is the length of the supplied churned collection and
\* churnedRevenue the summed contribution of all its members, in whole minor
\* units, whatever their status or cancellation time.
C13_ChurnedCollectionAsSupplied ==
  (result.op = "computeChurn" /\ ~Threw) =>
    /\ Value.churnedCustomers = Len(canceledSubs)
    /\ Value.churnedMrrCents = MathRound(ChurnedRevenue)

\* a churned member without a cancellation time inside the period is counted
C13_Witness ==
  /\ result.op = "computeChurn"
  /\ ~Threw
  /\ Value.churnedCustomers = 1
  /\ Value.churnedMrrCents = 1000
  /\ \/ canceledSubs[1].canceledAt = Null
     \/ canceledSubs[1].canceledAt[1] < now - 86400


\* the un-rounded components of the movement over the period of periodDays days
MovementCutoff == now - periodDays * 86400

NewRevenue ==
  ContributionSum(currentSubs,
                  {i \in ContributingIdx(currentSubs) :
                     currentSubs[i].createdAt >= MovementCutoff})

ChurnedInPeriodRevenue ==
  ContributionSum(canceledSubs,
                  {i \in DOMAIN canceledSubs :
                     /\ canceledSubs[i].canceledAt # Null
                     /\ canceledSubs[i].canceledAt[1] >= MovementCutoff})

\* the subscription-updated events of the period that carry both amounts
AmountChanges ==
  {i \in DOMAIN events :
     /\ events[i].type = "customer.subscription.updated"
     /\ events[i].created >= MovementCutoff
     /\ events[i].amountCents # Null
     /\ events[i].previousAmountCents # Null}

Difference(i) == events[i].amountCents[1] - events[i].previousAmountCents[1]

RECURSIVE DifferenceSum(_)
DifferenceSum(I) ==
  IF I = {} THEN 0
  ELSE LET i == CHOOSE k \in I : TRUE IN Abs(Difference(i)) + DifferenceSum(I \ {i})

ExpansionRevenue == DifferenceSum({i \in AmountChanges : Difference(i) > 0})
ContractionRevenue == DifferenceSum({i \in AmountChanges : Difference(i) < 0})

C16_ExpansionAndContraction ==
  (result.op = "computeMrrMovement" /\ ~Threw) =>
    /\ Value.expansionMrrCents = ExpansionRevenue
    /\ Value.contractionMrrCents = ContractionRevenue

\* an event exactly at the period boundary is counted as a contraction
C16_Witness ==
  /\ result.op = "computeMrrMovement"
  /\ ~Threw
  /\ Len(events) = 1
  /\ events[1].created = MovementCutoff
  /\ Value.contractionMrrCents = 1000
  /\ Value.expansionMrrCents = 0


\* the sums computeDashboard's ratio is made of, from the movement it returns
QuickRatioGain == Value.mrrMovement.newMrrCents + Value.mrrMovement.expansionMrrCents
QuickRatioLoss == Value.mrrMovement.contractionMrrCents + Value.mrrMovement.churnedMrrCents

\* C15 as stated: computeDashboard never raises; quickRatio is the infinite
\* sentinel when contraction + churned is 0 and new + expansion is > 0, exactly 0
\* when both are 0, and (new + expansion) / (contraction + churned) when
\* contraction + churned is > 0.
C15_QuickRatioIsQuotient ==
  (result.op = "computeDashboard") =>
    /\ ~Threw
    /\ (QuickRatioLoss = 0 /\ QuickRatioGain > 0) => Value.quickRatio = Infinity
    /\ (QuickRatioLoss = 0 /\ QuickRatioGain = 0) => Value.quickRatio = Zero
    /\ QuickRatioLoss > 0 => Value.quickRatio = Q(QuickRatioGain, QuickRatioLoss)

\* C15 amended: computeDashboard raises exactly when currentSubscriptions spans
\* currencies; when it returns, quickRatio is the infinite sentinel when
\* contraction + churned is 0 and new + expansion is > 0, exactly 0 when both
\* are 0, and otherwise (new + expansion) / (contraction + churned) rounded to
\* one decimal place, finite and non-negative.
C15_QuickRatioRoundedToTenth ==
  (result.op = "computeDashboard") =>
    /\ Threw <=> SpansCurrencies(currentSubs)
    /\ ~Threw =>
         /\ (QuickRatioLoss = 0 /\ QuickRatioGain > 0) => Value.quickRatio = Infinity
         /\ (QuickRatioLoss = 0 /\ QuickRatioGain = 0) => Value.quickRatio = Zero
         /\ QuickRatioLoss > 0 =>
              /\ Value.quickRatio.d > 0
              /\ Value.quickRatio.n >= 0
              /\ Value.quickRatio =
                   Q((20 * QuickRatioGain + QuickRatioLoss) \div (2 * QuickRatioLoss), 10)

\* a ratio of 1000 to 3000 returned as 0.3
C15_Witness ==
  /\ result.op = "computeDashboard"
  /\ ~Threw
  /\ QuickRatioGain = 1000
  /\ QuickRatioLoss = 3000
  /\ Value.quickRatio = Q(3, 10)

\* the trials of currentSubs that end after now and within the window
ExpiringIdx ==
  {i \in DOMAIN currentSubs :
     /\ currentSubs[i].status = "trialing"
     /\ currentSubs[i].trialEnd # Null
     /\ currentSubs[i].trialEnd[1] > now
     /\ currentSubs[i].trialEnd[1] <= now + 3 * 86400}

\* the smallest number of whole days that covers seconds > 0
DaysCovering(seconds) == (seconds + 86399) \div 86400

\* the list returned for currentSubs: one entry per expiring trial, with its
\* rounded contribution, in ascending order of days remaining
IsExpiringTrialsList(list) ==
  /\ Len(list) = Cardinality(ExpiringIdx)
  /\ \E f \in [DOMAIN list -> ExpiringIdx] :
       /\ \A k, l \in DOMAIN list : k # l => f[k] # f[l]
       /\ \A k \in DOMAIN list :
            /\ list[k].trialEnd = currentSubs[f[k]].trialEnd[1]
            /\ list[k].daysRemaining = DaysCovering(currentSubs[f[k]].trialEnd[1] - now)
            /\ list[k].mrrIfConverted = MathRound(Contribution(currentSubs[f[k]]))
  /\ \A k, l \in DOMAIN list : k < l => list[k].daysRemaining <= list[l].daysRemaining

\* C20: getExpiringTrials with the dashboard's 3-day window returns exactly the
\* trialing subscriptions whose trial end is strictly after now and at most 3
\* days after now, each with its contribution (normalize, discount, clamp) in
\* whole minor units as value-if-converted, in ascending order of days
\* remaining; no other subscription is returned.
C20_ExpiringTrials ==
  /\ (result.op = "getExpiringTrials") => IsExpiringTrialsList(Value)
  /\ (result.op = "computeDashboard" /\ ~Threw) => IsExpiringTrialsList(Value.expiringTrials)

\* two trials returned in the reverse of their input order, the later one ending
\* exactly at the end of the window
C20_Witness ==
  /\ result.op = "getExpiringTrials"
  /\ Len(currentSubs) = 2
  /\ Len(Value) = 2
  /\ Value[1].trialEnd = currentSubs[2].trialEnd[1]
  /\ Value[2].trialEnd = now + 3 * 86400
  /\ Value[1].daysRemaining < Value[2].daysRemaining


\* C17: computeSubscriberStats returns netChange = newThisPeriod -
\* churnedThisPeriod and pastDue <= totalActive, for every list and periodDays.
C17_StatsConsistency ==
  (result.op = "computeSubscriberStats") =>
    /\ ~Threw
    /\ Value.netChange = Value.newThisPeriod - Value.churnedThisPeriod
    /\ Value.pastDue <= Value.totalActive

\* only past_due subscriptions, and more churned than new
C17_Witness ==
  /\ result.op = "computeSubscriberStats"
  /\ ~Threw
  /\ Value.pastDue = 2
  /\ Value.totalActive = 2
  /\ Value.netChange < 0

\* the number of subscriptions of currentSubs that satisfy P
CountSubs(P(_)) == Cardinality({i \in DOMAIN currentSubs : P(currentSubs[i])})

\* the inclusive cutoff of computeSubscriberStats
StatsCutoff == now - (IF periodDays <= 0 THEN 1 ELSE periodDays) * 86400

\* C18: computeSubscriberStats equals the filter-based counts: totalActive the
\* active or past_due ones, trialing, pastDue, newThisPeriod those created at
\* or after the cutoff with status active, trialing or past_due,
\* churnedThisPeriod those with a cancellation time at or after the cutoff
\* whatever their status; cutoff = now - P days, P = 1 when periodDays <= 0,
\* and the result reports P.
C18_StatsEqualFilterCounts ==
  (result.op = "computeSubscriberStats" /\ ~Threw) =>
    /\ Value.periodDays = (IF periodDays <= 0 THEN 1 ELSE periodDays)
    /\ Value.totalActive = CountSubs(LAMBDA sub : sub.status \in {"active", "past_due"})
    /\ Value.trialing = CountSubs(LAMBDA sub : sub.status = "trialing")
    /\ Value.pastDue = CountSubs(LAMBDA sub : sub.status = "past_due")
    /\ Value.newThisPeriod =
         CountSubs(LAMBDA sub : /\ sub.createdAt >= StatsCutoff
                                /\ sub.status \in {"active", "trialing", "past_due"})
    /\ Value.churnedThisPeriod =
         CountSubs(LAMBDA sub : sub.canceledAt # Null /\ sub.canceledAt[1] >= StatsCutoff)

\* one trialing subscription, created and canceled exactly at the cutoff of a
\* non-positive periodDays, counted as new and as churned
C18_Witness ==
  /\ result.op = "computeSubscriberStats"
  /\ ~Threw
  /\ periodDays <= 0
  /\ Len(currentSubs) = 1
  /\ currentSubs[1].status = "trialing"
  /\ currentSubs[1].createdAt = now - 86400
  /\ Value.newThisPeriod = 1
  /\ Value.churnedThisPeriod = 1

\* the category of an event, "none" when it is dropped
Category(event) ==
  CASE event.type = "customer.subscription.created" -> "new"
    [] event.type = "customer.subscription.deleted" -> "canceled"
    [] event.type = "invoice.payment_failed" -> "payment_failed"
    [] /\ event.type = "customer.subscription.updated"
       /\ event.amountCents # Null /\ event.previousAmountCents # Null
       /\ event.amountCents[1] > event.previousAmountCents[1] -> "upgraded"
    [] /\ event.type = "customer.subscription.updated"
       /\ event.amountCents # Null /\ event.previousAmountCents # Null
       /\ event.amountCents[1] < event.previousAmountCents[1] -> "downgraded"
    [] OTHER -> "none"

EventsOfCategory(c) == Cardinality({i \in DOMAIN events : Category(events[i]) = c})
EntriesOfType(c) == Cardinality({k \in DOMAIN Value.changes : Value.changes[k].type = c})

\* C19: computeRecentChanges classifies each event by its type: created gives
\* new, deleted canceled, payment-failed payment_failed, updated upgraded when
\* its amount is greater than its previous amount and downgraded when smaller;
\* an update with equal or missing amounts and an event of another type give no
\* entry and no count; the call never raises.
C19_EventClassification ==
  (result.op = "computeRecentChanges") =>
    /\ ~Threw
    /\ Len(Value.changes) = Len(events) - EventsOfCategory("none")
    /\ \A c \in {"new", "canceled", "upgraded", "downgraded", "payment_failed"} :
         EntriesOfType(c) = EventsOfCategory(c)
    /\ Value.summary.newCount = EventsOfCategory("new")
    /\ Value.summary.canceledCount = EventsOfCategory("canceled")
    /\ Value.summary.upgradedCount = EventsOfCategory("upgraded")
    /\ Value.summary.downgradedCount = EventsOfCategory("downgraded")
    /\ Value.summary.failedPaymentCount = EventsOfCategory("payment_failed")

\* an update with equal amounts dropped next to a downgrade that is listed
C19_Witness ==
  /\ result.op = "computeRecentChanges"
  /\ ~Threw
  /\ Len(events) = 2
  /\ \E i \in DOMAIN events :
       /\ events[i].type = "customer.subscription.updated"
       /\ events[i].amountCents # Null
       /\ events[i].amountCents = events[i].previousAmountCents
  /\ Len(Value.changes) = 1
  /\ Value.changes[1].type = "downgraded"
  /\ Value.summary.downgradedCount = 1


\* the outcome of one metric function called alone on the snapshot
OnlyCall(op) ==
  CASE op = "computeMrr" -> computeMrr(currentSubs)
    [] op = "computeChurn" -> computeChurn(currentSubs, canceledSubs, periodDays, now)
    [] op = "computeRevenueByPlan" -> computeRevenueByPlan(currentSubs)
    [] op = "computeMrrMovement" ->
         computeMrrMovement(currentSubs, canceledSubs, events, periodDays, now)
    [] op = "getExpiringTrials" -> Return(getExpiringTrials(currentSubs, 3, now))
    [] op = "computeDashboard" ->
         computeDashboard(currentSubs, canceledSubs, events, periodDays, now)
    [] op = "computeSubscriberStats" -> computeSubscriberStats(currentSubs, periodDays, now)
    [] op = "computeRecentChanges" -> computeRecentChanges(events, periodDays)

\* C21: no metric function modifies the collections it receives, their
\* elements or their order: every step of every sequence of calls leaves the
\* snapshot as it was, and the result of a call is the one the function gives
\* when it is the only call on the snapshot.
C21_SnapshotUnchanged ==
  [][/\ currentSubs' = currentSubs
     /\ canceledSubs' = canceledSubs
     /\ events' = events
     /\ (result' # NotCalled) => (result'.outcome = OnlyCall(result'.op))]_vars

\* computeRecentChanges has listed the later event first while the events
\* still stand in their original order, the earlier one first
C21_Witness ==
  /\ result.op = "computeRecentChanges"
  /\ Len(events) = 2
  /\ events[1].created < events[2].created
  /\ Len(Value.changes) = 2
  /\ Value.changes[1].date > Value.changes[2].date


\* the first item of the one subscription, and the amount it is charged
FirstItem == currentSubs[1].items[1]
FirstItemAmount == FirstItem.unitAmountCents * FirstItem.quantity

\* C22, as stated: an annual item of 12000 minor units normalizes to a monthly
\* amount of 1000 with intervalCount 1 and also with intervalCount 2.
C22_AnnualItemNormalizes ==
  (/\ result.op = "normalizeToMonthlyCents"
   /\ FirstItem.interval = "year"
   /\ FirstItemAmount = 12000
   /\ FirstItem.intervalCount \in {1, 2}) =>
    (~Threw /\ Value = Int2Q(1000))

\* C22, amended: an annual item normalizes to its amount divided by
\* intervalCount and by 12: 12000 with intervalCount 1 gives 1000, 24000 with
\* intervalCount 2 gives 1000, and 12000 with intervalCount 2 gives 500.
C22_AnnualItemDividedByCount ==
  (result.op = "normalizeToMonthlyCents" /\ FirstItem.interval = "year") =>
    /\ ~Threw
    /\ (FirstItemAmount = 12000 /\ FirstItem.intervalCount = 1) => Value = Int2Q(1000)
    /\ (FirstItemAmount = 24000 /\ FirstItem.intervalCount = 2) => Value = Int2Q(1000)
    /\ (FirstItemAmount = 12000 /\ FirstItem.intervalCount = 2) => Value = Int2Q(500)

\* a bi-annual item of 24000 has been normalized to 1000
C22_Witness ==
  /\ result.op = "normalizeToMonthlyCents"
  /\ FirstItem.interval = "year"
  /\ FirstItem.intervalCount = 2
  /\ FirstItemAmount = 24000
  /\ Value = Int2Q(1000)

\* the Stripe call of the tool being handled fails with an authentication
\* error, after its arguments were accepted
AuthenticationFailure ==
  /\ request.name \in ToolNames \ {"get_dashboard"}
  /\ request.stripeFailure # Null
  /\ request.stripeFailure[1].instanceOfError
  /\ request.stripeFailure[1].type = <<"authentication_error">>
  /\ request.name \in {"get_mrr", "get_revenue_by_plan"} \/ request.days \in {<<>>, <<1>>}

\* C23: when a tool call fails the handler does not throw but returns an error
\* result whose text is 'Error: ' followed by the failure's descriptive
\* message; for an authentication failure of the Stripe call the text carries
\* the mapped message 'Authentication failed: ...'; an unknown tool name and
\* an out-of-range argument give an error result too.
C23_ErrorResultCarriesMessage ==
  (result.op = "CallTool") =>
    /\ ~Threw
    /\ (request.name = "get_dashboard") =>
         (Value.isError /\ Value.text = <<"Error: ", "Unknown tool: ", "get_dashboard">>)
    /\ (request.name \in {"get_churn", "get_subscriber_stats"} /\ request.days \in {<<0>>, <<366>>}) =>
         (Value.isError /\ Value.text[1] = "Error: ")
    /\ AuthenticationFailure =>
         /\ Value.isError
         /\ Value.text[1] = "Error: "
         /\ Value.text[2] = "Authentication failed: "
         /\ SubSeq(Value.text, 3, Len(Value.text)) = request.stripeFailure[1].message


C25_FourContributionsAgree ==
  (result.op = "contributions") =>
    /\ ~Threw
    /\ Value.churn = Value.mrr
    /\ Value.plans = Value.mrr
    /\ Value.dashboard = Value.mrr

\* a subscription discounted by more than its amount, and one without items
\* under an amount-off discount, have been computed the four ways
C25_Witness ==
  /\ result.op = "contributions"
  /\ currentSubs[1].discount # Null
  /\ \/ /\ currentSubs[1].items # <<>>
        /\ currentSubs[1].discount[1].percentOff = <<150>>
     \/ /\ currentSubs[1].items = <<>>
        /\ currentSubs[1].discount[1] = [percentOff |-> <<>>, amountOff |-> <<50>>]
  /\ Value.dashboard = Zero
  /\ Value.mrr = Zero

\* max(0, x)
ClampAtZero(x) == IF x.n < 0 THEN Zero ELSE x

\* the first item's interval applied to the amount of an amount-off discount
AmountOffMonthly(sub) ==
  RMul(Q(sub.discount[1].amountOff[1], sub.items[1].intervalCount),
       MonthsScale(sub.items[1].interval))

\* the value a discount with a percentage, or with an amount only, leaves
PercentageOnly(sub) ==
  ClampAtZero(RMul(PreDiscountSum(sub.items), Q(100 - sub.discount[1].percentOff[1], 100)))
AmountOnly(sub) ==
  ClampAtZero(RSub(PreDiscountSum(sub.items), AmountOffMonthly(sub)))

AllFourEqual(v) ==
  Value.mrr = v /\ Value.churn = v /\ Value.plans = v /\ Value.dashboard = v

\* C28: when a discount has both percentOff and amountOff, only the percentage
\* is applied, in all four contribution computations; amountOff is subtracted
\* only when percentOff is null; percentOff 0 with an amountOff leaves the
\* contribution undiscounted.
C28_PercentageTakesPrecedence ==
  (/\ result.op = "contributions"
   /\ currentSubs[1].items # <<>>
   /\ currentSubs[1].discount # Null) =>
    /\ ~Threw
    /\ (currentSubs[1].discount[1].percentOff # Null) =>
         AllFourEqual(PercentageOnly(currentSubs[1]))
    /\ (currentSubs[1].discount[1].percentOff = <<0>>) =>
         AllFourEqual(PreDiscountSum(currentSubs[1].items))
    /\ (currentSubs[1].discount[1].percentOff = Null
        /\ currentSubs[1].discount[1].amountOff # Null) =>
         AllFourEqual(AmountOnly(currentSubs[1]))

\* a discount of 0 percent with an amount off of 50 on a monthly item of 12000
\* has left the four contributions at 12000
C28_Witness ==
  /\ result.op = "contributions"
  /\ currentSubs[1].discount = <<[percentOff |-> <<0>>, amountOff |-> <<50>>]>>
  /\ currentSubs[1].items = <<Item("basic", 12000, 1, "month", 1)>>
  /\ AllFourEqual(Int2Q(12000))


\* the list entry a classified event gives
EntryOf(event) ==
  [type |-> Category(event),
   amountFormatted |-> IF event.amountCents = Null THEN 0 ELSE event.amountCents[1],
   date |-> event.created \div 86400]

\* the ways of telling which event each entry of the list stands for
EntryAssignments ==
  {f \in [DOMAIN Value.changes -> DOMAIN events] :
     /\ \A j, k \in DOMAIN f : j # k => f[j] # f[k]
     /\ \A k \in DOMAIN f :
          Category(events[f[k]]) # "none" /\ EntryOf(events[f[k]]) = Value.changes[k]}

C29_CountersMatchList ==
  (result.op = "computeRecentChanges" /\ ~Threw) =>
    /\ Len(Value.changes) =
         Value.summary.newCount + Value.summary.canceledCount
         + Value.summary.upgradedCount + Value.summary.downgradedCount
         + Value.summary.failedPaymentCount
    /\ Value.summary.newCount = EntriesOfType("new")
    /\ Value.summary.canceledCount = EntriesOfType("canceled")
    /\ Value.summary.upgradedCount = EntriesOfType("upgraded")
    /\ Value.summary.downgradedCount = EntriesOfType("downgraded")
    /\ Value.summary.failedPaymentCount = EntriesOfType("payment_failed")
    /\ EntriesOfType("reactivated") = 0

\* a failed payment and an upgrade are listed and counted once each
C29_Witness ==
  /\ result.op = "computeRecentChanges"
  /\ ~Threw
  /\ Len(Value.changes) = 2
  /\ Value.summary.failedPaymentCount = 1
  /\ Value.summary.upgradedCount = 1
  /\ EntriesOfType("payment_failed") = 1

\* the values the days argument takes
DaysValues == 1..3

\* C30: computeRecentChanges does not bound the events by time: days is only
\* echoed, a call with any other days value on the same events returns the
\* same list and the same counts, and a recognized event older than days days
\* is listed and counted.
C30_DaysOnlyEchoed ==
  (result.op = "computeRecentChanges" /\ ~Threw) =>
    /\ Value.days = periodDays
    /\ \A d \in DaysValues :
         /\ computeRecentChanges(events, d).value.changes = Value.changes
         /\ computeRecentChanges(events, d).value.summary = Value.summary
    /\ \A i \in DOMAIN events :
         (Category(events[i]) # "none" /\ events[i].created < now - periodDays * 86400) =>
           \E k \in DOMAIN Value.changes : Value.changes[k] = EntryOf(events[i])

\* a subscription created more than one day ago is listed by a call with
\* days = 1
C30_Witness ==
  /\ result.op = "computeRecentChanges"
  /\ ~Threw
  /\ periodDays = 1
  /\ Len(events) = 1
  /\ events[1].type = "customer.subscription.created"
  /\ events[1].created < now - 86400
  /\ Value.days = 1
  /\ Value.summary.newCount = 1
  /\ Len(Value.changes) = 1


\* the contributing subscriptions computeMrrMovement counts as new
NewIdx ==
  {i \in ContributingIdx(currentSubs) : currentSubs[i].createdAt >= MovementCutoff}

\* the three returned fields, over the one list, period and clock reading
ReturnedStartingRevenue ==
  computeChurn(currentSubs, canceledSubs, periodDays, now).value.startingMrrCents
ReturnedTotal == computeMrr(currentSubs).value.totalMrrCents

\* C27: for one single-currency list, one period P >= 1 and one clock reading,
\* every contributing subscription is counted exactly once between
\* computeChurn's starting population and computeMrrMovement's new revenue:
\* un-rounded starting revenue plus un-rounded new revenue is computeMrr's
\* un-rounded total, and the returned rounded fields satisfy
\* |startingRevenue + newRevenue - total| <= 1.
C27_StartingPlusNewIsTotal ==
  (/\ result.op = "computeMrrMovement"
   /\ periodDays >= 1
   /\ ~SpansCurrencies(currentSubs)
   /\ ~computeChurn(currentSubs, canceledSubs, periodDays, now).threw) =>
    /\ ~Threw
    /\ StartingIdx \cup NewIdx = ContributingIdx(currentSubs)
    /\ StartingIdx \cap NewIdx = {}
    /\ RAdd(StartingRevenue, NewRevenue) =
         ContributionSum(currentSubs, ContributingIdx(currentSubs))
    /\ ReturnedStartingRevenue = MathRound(StartingRevenue)
    /\ Value.newMrrCents = MathRound(NewRevenue)
    /\ ReturnedTotal =
         MathRound(ContributionSum(currentSubs, ContributingIdx(currentSubs)))
    /\ ReturnedStartingRevenue + Value.newMrrCents - ReturnedTotal \in -1..1

\* one subscription of half a minor unit created just before the boundary and
\* one created exactly at it: starting revenue and new revenue are each
\* returned as 1 and so is the total
C27_Witness ==
  /\ result.op = "computeMrrMovement"
  /\ ~Threw
  /\ periodDays = 1
  /\ Len(currentSubs) = 2
  /\ StartingIdx = {1}
  /\ NewIdx = {2}
  /\ currentSubs[2].createdAt = MovementCutoff
  /\ StartingRevenue = Q(1, 2)
  /\ ReturnedStartingRevenue = 1
  /\ Value.newMrrCents = 1
  /\ ReturnedTotal = 1

====
